---- MODULE Spec2Model ----
(***************************************************************************)
(* A model of the ECS core of rust_engine_test: the entity registry        *)
(* (src/src/ecs/entity.rs), the component store (src/src/ecs/component.rs),*)
(* the scene state (src/src/scene/mod.rs), the system scheduler            *)
(* (src/src/ecs/system.rs) and the worker pool (src/src/thread_pool).      *)
(*                                                                         *)
(* Each layer has its own specification over the shared variables:         *)
(*   SpecEM    - EntityManager called directly                             *)
(*   SpecScene - SceneState's surface (entities, components, cull)         *)
(*   SpecCM    - ComponentManager called directly                          *)
(*   SpecHandles - the Entity handles held by code outside the ECS         *)
(*   SpecPoolFair - SpecPool under a fair scheduler                        *)
(*   SpecFrame - one on_frame call on a pool at rest                       *)
(*   SpecReg   - Systems::add_system                                       *)
(*   SpecPool  - ThreadPool with a caller that submits jobs and waits      *)
(*   SpecSched - Systems::on_entry/on_exit/on_frame driving the pool       *)
(*   SpecFrameFair - SpecFrame under a fair scheduler                      *)
(*   SpecDestroy - destroy_entity of EntityManager and of SceneState       *)
(*   SpecStore - ComponentManager called from several threads, lock by lock*)
(*   SpecRegistry - EntityManager::create_entity from several threads      *)
(*   SpecSwap, SpecSwapFair - Engine::run with swap_scenes                 *)
(***************************************************************************)
EXTENDS Integers, Sequences, FiniteSets, TLC

(* ------------------------------ bounds -------------------------------- *)

\* Stands for u32::MAX, the end of the id space (entity.rs:55), scaled down.
U32_MAX == 3

\* SpecScene allocates fresh ids only below this count.
MaxEntities == 2

\* Longest key list handed to has_components.
MaxKeys == 2

\* SpecPool: the largest pool size, and the number of jobs submitted.
MaxThreads == 2

MaxJobs == 2

\* SpecHandles: the most handles to one id the calling code is followed to.
MaxHeld == 2

(* ------------------------------ state --------------------------------- *)

VARIABLES
    next_entity_id,     \* EntityManager.next_entity_id
    dead_entities,      \* EntityManager.dead_entities (VecDeque, front first)
    components,         \* ComponentManager.components: type -> (entity -> value)
    entities_to_kill,   \* SceneState.entities_to_kill
    ret,                \* the last call and what it returned
    issued,             \* history: ids ever returned by create_entity
    freeLog,            \* history: freed ids not reissued, in the order freed
    live,               \* history: ids returned by create_entity and not freed since
    system_list,        \* Systems.system_list: system type -> signature
    system_parallels,   \* Systems.system_parallels: the batches, in creation order
    thread_count,       \* ThreadPool::new(thread_count): the number of workers
    queue,              \* JobQueue.queue (VecDeque, front first)
    queue_lock,         \* the worker holding the queue's mutex inside get_job, or 0
    is_empty,           \* JobQueue.is_empty.blocking
    has_task,           \* JobQueue.has_task.blocking
    thread_lock,        \* each worker's ThreadLock.blocking
    wpc,                \* each worker's position in its loop
    wjob,               \* the job each worker got from get_job, or NoJob
    mpc,                \* the submitting thread's position in execute / wait
    mi,                 \* wait(): the index of the worker lock being waited on
    mjob,               \* execute(): the job being submitted
    nsub,               \* history: the number of jobs handed to execute
    finished,           \* history: the ids of the jobs that have run to their end
    spc,                \* the scheduler's position in a lifecycle driver
    cb,                 \* the callback of the pass the scheduler is in
    bi,                 \* the scheduler's batch index (for parallel in parallels)
    si,                 \* the scheduler's index in the batch (for system_id in parallel)
    sys_lock,           \* the worker holding each system's Mutex, or 0
    lastAdded,          \* history: <<type, entity>> -> the value last stored and not removed
    held,               \* the caller's Entity handles: id -> how many it holds
    called,             \* history: <<system, callback>> -> the entities it was invoked with
    tpc,                \* each calling thread's position in, and locals of, an ECS call
    components_lock,    \* the thread holding ComponentManager.components' Mutex, or 0
    array_lock,         \* the thread holding each component array's Mutex, or 0
    next_scene,         \* SceneManager.next_scene (None or a scene id)
    current_scene,      \* SceneManager.current_scene (None or a scene id)
    swpc                \* the main thread's position in SceneManager::swap_scenes

ecsVars == <<next_entity_id, dead_entities, components, entities_to_kill,
             ret, issued, freeLog, live>>

sysVars == <<system_list, system_parallels>>

poolVars == <<thread_count, queue, queue_lock, is_empty, has_task, thread_lock,
              wpc, wjob, mpc, mi, mjob, nsub, finished>>

schedVars == <<spc, cb, bi, si, sys_lock>>

\* What the code that calls into the ECS keeps; constant outside SpecCM and SpecHandles.
callerVars == <<lastAdded, held>>

\* The callback log.
logVars == <<called>>

\* The threads that call into the ECS concurrently, and the store's mutexes.
storeVars == <<tpc, components_lock, array_lock>>

\* SceneManager.
mgrVars == <<next_scene, current_scene, swpc>>

moreVars == <<logVars, storeVars, mgrVars>>

notPool == <<ecsVars, sysVars, schedVars, callerVars, moreVars>>

vars == <<ecsVars, sysVars, poolVars, schedVars, callerVars, moreVars>>

(* ------------------------------ helpers ------------------------------- *)

\* Every handle value a caller may pass: ids of this scene and of others.
Handles == 0..U32_MAX

\* The component types of the demo application (main.rs).
ComponentTypes == {"Position", "Physics"}

\* The one component value the scene surface stores here.
SomeValue == 1

None == -1

Range(s) == {s[i] : i \in DOMAIN s}

Contains(s, x) == \E i \in DOMAIN s : s[i] = x

Put(f, k, v) == [x \in (DOMAIN f) \cup {k} |-> IF x = k THEN v ELSE f[x]]

Del(f, k) == [x \in (DOMAIN f) \ {k} |-> f[x]]

EmptyMap == [x \in {} |-> 0]

\* The threads that call into the ECS at the same time.
Threads == 1..MaxThreads

\* A thread outside any call.
IdleThread ==
    [pc |-> "idle", op |-> "", comp |-> "", ent |-> None, val |-> None, res |-> "",
     todo |-> {}]

\* No callback has run, no thread is inside a call, every mutex is free, and the
\* scene manager is as SceneManager::new leaves it.
InitMore ==
    /\ called = EmptyMap
    /\ tpc = [t \in Threads |-> IdleThread]
    /\ components_lock = 0
    /\ array_lock = [c \in ComponentTypes |-> 0]
    /\ next_scene = None
    /\ current_scene = None
    /\ swpc = "idle"

Orders(S) == {s \in [1..Cardinality(S) -> S] : \A i, j \in DOMAIN s : s[i] = s[j] => i = j}

KeyLists == UNION {[1..n -> ComponentTypes] : n \in 0..MaxKeys}

\* op, ent, comp, keys: the call and its arguments; res, val: its result. list is
\* the entity list of the call: the result of get_living_entities, and for
\* cull_entities the order in which entities_to_kill.take() was iterated.
Ret(op, ent, comp, keys, res, val, list) ==
    [op |-> op, ent |-> ent, comp |-> comp, keys |-> keys, res |-> res, val |-> val,
     list |-> list]

(* --------------------------- EntityManager ---------------------------- *)

\* Mutant: the free-id queue is not consulted.
does_entity_exist_NoDeadCheck(next, dead, e) == next > e

does_entity_exist(next, dead, e) == next > e /\ ~Contains(dead, e)

\* Mutant: pop_back in place of pop_front.
EM_create_entity_PopBack(next, dead) ==
    IF dead # <<>>
    THEN [res |-> "Ok", val |-> dead[Len(dead)], next |-> next,
          dead |-> SubSeq(dead, 1, Len(dead) - 1)]
    ELSE IF next = U32_MAX
         THEN [res |-> "EntityMaxReached", val |-> None, next |-> next, dead |-> dead]
         ELSE [res |-> "Ok", val |-> (next + 1) - 1, next |-> next + 1, dead |-> dead]

\* Mutant: the end of the id space is tested before the free-id queue.
EM_create_entity_MaxFirst(next, dead) ==
    IF next = U32_MAX
    THEN [res |-> "EntityMaxReached", val |-> None, next |-> next, dead |-> dead]
    ELSE IF dead # <<>>
         THEN [res |-> "Ok", val |-> Head(dead), next |-> next, dead |-> Tail(dead)]
         ELSE [res |-> "Ok", val |-> (next + 1) - 1, next |-> next + 1, dead |-> dead]

EM_create_entity(next, dead) ==
    IF dead # <<>>
    THEN [res |-> "Ok", val |-> Head(dead), next |-> next, dead |-> Tail(dead)]
    ELSE IF next = U32_MAX
         THEN [res |-> "EntityMaxReached", val |-> None, next |-> next, dead |-> dead]
         ELSE [res |-> "Ok", val |-> (next + 1) - 1, next |-> next + 1, dead |-> dead]

\* Mutant: the id is queued without asking whether it exists.
EM_destroy_entity_NoExistCheck(next, dead, e) == Append(dead, e)

EM_destroy_entity(next, dead, e) ==
    IF does_entity_exist(next, dead, e) THEN Append(dead, e) ELSE dead

RECURSIVE LivingFrom(_, _, _)
LivingFrom(i, next, dead) ==
    IF i >= next THEN <<>>
    ELSE (IF Contains(dead, i) THEN <<>> ELSE <<i>>) \o LivingFrom(i + 1, next, dead)

\* Mutant: every id below the counter is listed, freed or not.
get_living_entities_NoFilter(next, dead) == [i \in 1..next |-> i - 1]

get_living_entities(next, dead) == LivingFrom(0, next, dead)

(* -------------------------- ComponentManager -------------------------- *)

\* Mutant: an unknown type is registered on the fly and the value stored.
CM_add_component_AutoRegister(comps, e, c, v) ==
    IF c \in DOMAIN comps
    THEN [res |-> "Ok", components |-> [comps EXCEPT ![c] = Put(@, e, v)]]
    ELSE [res |-> "Ok", components |-> Put(comps, c, Put(EmptyMap, e, v))]

CM_add_component(comps, e, c, v) ==
    IF c \in DOMAIN comps
    THEN [res |-> "Ok", components |-> [comps EXCEPT ![c] = Put(@, e, v)]]
    ELSE [res |-> "ComponentNotRegistered", components |-> comps]

\* Mutant: the whole array of the type is emptied.
CM_remove_component_Clear(comps, e, c) ==
    IF c \in DOMAIN comps
    THEN [res |-> "Ok", components |-> [comps EXCEPT ![c] = EmptyMap]]
    ELSE [res |-> "ComponentNotRegistered", components |-> comps]

CM_remove_component(comps, e, c) ==
    IF c \in DOMAIN comps
    THEN [res |-> "Ok", components |-> [comps EXCEPT ![c] = Del(@, e)]]
    ELSE [res |-> "ComponentNotRegistered", components |-> comps]

\* Mutant: the loop stops after the first array.
CM_remove_components_FirstOnly(comps, e) ==
    [res |-> "Ok",
     components |-> [c \in DOMAIN comps |->
                        IF c = CHOOSE d \in DOMAIN comps : TRUE
                        THEN Del(comps[c], e) ELSE comps[c]]]

CM_remove_components(comps, e) ==
    [res |-> "Ok", components |-> [c \in DOMAIN comps |-> Del(comps[c], e)]]

RECURSIVE CM_has_components(_, _, _)
CM_has_components(comps, e, keys) ==
    IF keys = <<>>
    THEN [res |-> "Ok", val |-> TRUE]
    ELSE IF Head(keys) \in DOMAIN comps
         THEN IF e \notin DOMAIN comps[Head(keys)]
              THEN [res |-> "Ok", val |-> FALSE]
              ELSE CM_has_components(comps, e, Tail(keys))
         ELSE [res |-> "ComponentNotRegistered", val |-> FALSE]

is_component_registered(comps, c) == c \in DOMAIN comps

\* Mutant: a fresh array is inserted on every call.
CM_register_component_Reset(comps, c) == Put(comps, c, EmptyMap)

CM_register_component(comps, c) ==
    IF is_component_registered(comps, c) THEN comps ELSE Put(comps, c, EmptyMap)

\* The key register_component returns: type_id as Component, in both branches.
CM_register_component_key(comps, c) ==
    IF is_component_registered(comps, c) THEN c ELSE c

\* Mutant: an unknown type is reported as a missing component.
CM_get_component_NoTypeError(comps, e, c) ==
    IF c \in DOMAIN comps /\ e \in DOMAIN comps[c]
    THEN [res |-> "Ok", val |-> comps[c][e]]
    ELSE [res |-> "EntityDoesNotOwnComponent", val |-> None]

\* get_component: the cell points at the value stored for the entity. The
\* downcast cannot fail: the array of type C was created as HashMap<Entity, C>.
CM_get_component(comps, e, c) ==
    IF c \in DOMAIN comps
    THEN IF e \in DOMAIN comps[c]
         THEN [res |-> "Ok", val |-> comps[c][e]]
         ELSE [res |-> "EntityDoesNotOwnComponent", val |-> None]
    ELSE [res |-> "ComponentNotRegistered", val |-> None]

(* ----------------------------- SceneState ----------------------------- *)

\* Mutant: the handle is marked without asking the entity manager.
Scene_destroy_entity_NoExistCheck(next, dead, kill, e) ==
    [res |-> "Ok", kill |-> kill \cup {e}]

Scene_destroy_entity(next, dead, kill, e) ==
    IF does_entity_exist(next, dead, e)
    THEN [res |-> "Ok", kill |-> kill \cup {e}]
    ELSE [res |-> "EntityDoesNotExist", kill |-> kill]

\* One iteration of the loop of cull_entities, on st = [comps, dead].
CullOne(next, st, e) ==
    [comps |-> CM_remove_components(st.comps, e).components,
     dead  |-> EM_destroy_entity(next, st.dead, e)]

RECURSIVE CullLoop(_, _, _)
CullLoop(next, st, order) ==
    IF order = <<>> THEN st
    ELSE CullLoop(next, CullOne(next, st, Head(order)), Tail(order))

Scene_add_component(next, dead, comps, e, c, v) ==
    IF does_entity_exist(next, dead, e)
    THEN CM_add_component(comps, e, c, v)
    ELSE [res |-> "EntityDoesNotExist", components |-> comps]

Scene_remove_component(next, dead, comps, e, c) ==
    IF does_entity_exist(next, dead, e)
    THEN CM_remove_component(comps, e, c)
    ELSE [res |-> "EntityDoesNotExist", components |-> comps]

(* ------------------------------ Systems ------------------------------- *)

\* The concrete system types that get registered.
SystemTypes == {"A", "B", "C"}

\* The signatures handed to register_system: key lists that name no type twice.
Signatures ==
    {sig \in KeyLists : \A i, j \in DOMAIN sig : sig[i] = sig[j] => i = j}

\* Mutant: the overlap test is inverted.
Overlaps_Inverted(member_components, signature) ==
    ~(\E i \in DOMAIN member_components : Contains(member_components, member_components[i]))

\* components.iter().any(|val| components.contains(val)): the member's list is
\* tested against itself; the new system's signature is not read.
Overlaps(member_components, signature) ==
    \E i \in DOMAIN member_components : Contains(member_components, member_components[i])

\* The inner loop of add_system: no member of the batch breaks out.
fits_in_parallel(list, parallel, signature) ==
    \A i \in DOMAIN parallel : ~Overlaps(list[parallel[i]], signature)

\* The outer loop of add_system from batch i on; a new batch when none fits.
RECURSIVE PlaceFrom(_, _, _, _, _)
PlaceFrom(list, parallels, i, system_id, signature) ==
    IF i > Len(parallels)
    THEN Append(parallels, <<system_id>>)
    ELSE IF fits_in_parallel(list, parallels[i], signature)
         THEN [parallels EXCEPT ![i] = Append(@, system_id)]
         ELSE PlaceFrom(list, parallels, i + 1, system_id, signature)

\* Mutant: no test for a system type that is already registered.
add_system_NoContainsKey(list, parallels, system_id, signature) ==
    LET inserted == Put(list, system_id, signature) IN
    [list |-> inserted,
     parallels |-> PlaceFrom(inserted, parallels, 1, system_id, signature)]

add_system(list, parallels, system_id, signature) ==
    IF system_id \in DOMAIN list
    THEN [list |-> list, parallels |-> parallels]
    ELSE LET inserted == Put(list, system_id, signature) IN
         [list |-> inserted,
          parallels |-> PlaceFrom(inserted, parallels, 1, system_id, signature)]

\* Systems::new, before any lifecycle call.
InitSystems ==
    /\ spc = "idle"
    /\ cb = ""
    /\ bi = 0
    /\ si = 0
    /\ sys_lock = [x \in SystemTypes |-> 0]

(* ----------------------------- ThreadPool ----------------------------- *)

\* A job: in SpecPool only its id counts; the scheduler's jobs carry the system,
\* the callback, the batch they belong to and the matched entities.
Job(id, sys, callback, batch, ents) ==
    [id |-> id, sys |-> sys, cb |-> callback, batch |-> batch, ents |-> ents]

\* Option::None of get_job.
NoJob == Job(0, "", "", 0, <<>>)

Workers == 1..thread_count

\* ThreadPool::new and JobQueue::new: has_task starts blocked, is_empty and the
\* workers' locks start open, and every spawned worker is about to call get_job.
InitThreadPool(n) ==
    /\ thread_count = n
    /\ queue = <<>>
    /\ queue_lock = 0
    /\ is_empty = FALSE
    /\ has_task = TRUE
    /\ thread_lock = [w \in 1..n |-> FALSE]
    /\ wpc = [w \in 1..n |-> "get_job"]
    /\ wjob = [w \in 1..n |-> NoJob]
    /\ mpc = "idle"
    /\ mi = 0
    /\ mjob = NoJob
    /\ nsub = 0
    /\ finished = {}

\* The workers parked in has_task.cvar.wait.
HasTaskWaiters == {w \in Workers : wpc[w] = "has_task_parked"}

\* Condvar::notify_one on has_task: the waiter it wakes, 0 when nobody waits.
NotifyOneChoices == IF HasTaskWaiters = {} THEN {0} ELSE HasTaskWaiters

\* The worker positions after thread w moved to pc and notify_one woke v.
Woken(w, pc, v) ==
    [x \in Workers |-> IF x = w THEN pc
                       ELSE IF x = v THEN "get_job"
                       ELSE wpc[x]]

(* get_job *)

\* has_task.wait(): with the flag's mutex held, park while blocking.
WHasTaskWait(w) ==
    /\ wpc[w] = "get_job"
    /\ wpc' = [wpc EXCEPT ![w] = IF has_task THEN "has_task_parked" ELSE "pop"]
    /\ UNCHANGED notPool
    /\ UNCHANGED <<thread_count, queue, queue_lock, is_empty, has_task, thread_lock,
                   wjob, mpc, mi, mjob, nsub, finished>>

\* Condvar::wait may return without a notification.
WSpuriousWakeup(w) ==
    /\ wpc[w] = "has_task_parked"
    /\ wpc' = [wpc EXCEPT ![w] = "get_job"]
    /\ UNCHANGED notPool
    /\ UNCHANGED <<thread_count, queue, queue_lock, is_empty, has_task, thread_lock,
                   wjob, mpc, mi, mjob, nsub, finished>>

\* Mutant: the front of the queue is read and left in the queue.
WPopFront_Front(w) ==
    /\ wpc[w] = "pop"
    /\ queue_lock = 0
    /\ queue_lock' = w
    /\ wjob' = [wjob EXCEPT ![w] = IF queue # <<>> THEN Head(queue) ELSE NoJob]
    /\ wpc' = [wpc EXCEPT ![w] = IF queue # <<>> THEN "some_unblock" ELSE "none_unblock"]
    /\ UNCHANGED notPool
    /\ UNCHANGED <<thread_count, queue, is_empty, has_task, thread_lock,
                   mpc, mi, mjob, nsub, finished>>

\* queue.lock() and pop_front(); the guard lives to the end of get_job.
WPopFront(w) ==
    /\ wpc[w] = "pop"
    /\ queue_lock = 0
    /\ queue_lock' = w
    /\ queue' = IF queue # <<>> THEN Tail(queue) ELSE queue
    /\ wjob' = [wjob EXCEPT ![w] = IF queue # <<>> THEN Head(queue) ELSE NoJob]
    /\ wpc' = [wpc EXCEPT ![w] = IF queue # <<>> THEN "some_unblock" ELSE "none_unblock"]
    /\ UNCHANGED notPool
    /\ UNCHANGED <<thread_count, is_empty, has_task, thread_lock,
                   mpc, mi, mjob, nsub, finished>>

\* Some(job): has_task.unblock(), the store.
WSomeUnblock(w) ==
    /\ wpc[w] = "some_unblock"
    /\ has_task' = FALSE
    /\ wpc' = [wpc EXCEPT ![w] = "some_notify"]
    /\ UNCHANGED notPool
    /\ UNCHANGED <<thread_count, queue, queue_lock, is_empty, thread_lock,
                   wjob, mpc, mi, mjob, nsub, finished>>

\* Some(job): has_task.unblock(), the notify_one; get_job returns.
WSomeNotify(w) ==
    /\ wpc[w] = "some_notify"
    /\ \E v \in NotifyOneChoices : wpc' = Woken(w, "block", v)
    /\ queue_lock' = 0
    /\ UNCHANGED notPool
    /\ UNCHANGED <<thread_count, queue, is_empty, has_task, thread_lock,
                   wjob, mpc, mi, mjob, nsub, finished>>

\* None: is_empty.unblock(), the store.
WNoneUnblock(w) ==
    /\ wpc[w] = "none_unblock"
    /\ is_empty' = FALSE
    /\ wpc' = [wpc EXCEPT ![w] = "none_notify"]
    /\ UNCHANGED notPool
    /\ UNCHANGED <<thread_count, queue, queue_lock, has_task, thread_lock,
                   wjob, mpc, mi, mjob, nsub, finished>>

\* None: is_empty.unblock(), the notify_one: wakes the thread inside wait_for_clear.
WNoneNotify(w) ==
    /\ wpc[w] = "none_notify"
    /\ mpc' = IF mpc = "is_empty_parked" THEN "wait_for_clear" ELSE mpc
    /\ wpc' = [wpc EXCEPT ![w] = "none_block"]
    /\ UNCHANGED notPool
    /\ UNCHANGED <<thread_count, queue, queue_lock, is_empty, has_task, thread_lock,
                   wjob, mi, mjob, nsub, finished>>

\* None: has_task.block(); get_job returns.
WNoneBlock(w) ==
    /\ wpc[w] = "none_block"
    /\ has_task' = TRUE
    /\ queue_lock' = 0
    /\ wpc' = [wpc EXCEPT ![w] = "block"]
    /\ UNCHANGED notPool
    /\ UNCHANGED <<thread_count, queue, is_empty, thread_lock,
                   wjob, mpc, mi, mjob, nsub, finished>>

(* the worker loop *)

\* thread_lock_handle.block()
WBlock(w) ==
    /\ wpc[w] = "block"
    /\ thread_lock' = [thread_lock EXCEPT ![w] = TRUE]
    /\ wpc' = [wpc EXCEPT ![w] = IF wjob[w] # NoJob THEN "job" ELSE "unblock"]
    /\ UNCHANGED notPool
    /\ UNCHANGED <<thread_count, queue, queue_lock, is_empty, has_task,
                   wjob, mpc, mi, mjob, nsub, finished>>

\* job(): a job of SpecPool starts
WJobStart(w) ==
    /\ wpc[w] = "job"
    /\ wpc' = [wpc EXCEPT ![w] = "running"]
    /\ UNCHANGED notPool
    /\ UNCHANGED <<thread_count, queue, queue_lock, is_empty, has_task, thread_lock,
                   wjob, mpc, mi, mjob, nsub, finished>>

\* job(): it returns
WJobEnd(w) ==
    /\ wpc[w] = "running"
    /\ finished' = finished \cup {wjob[w].id}
    /\ wjob' = [wjob EXCEPT ![w] = NoJob]
    /\ wpc' = [wpc EXCEPT ![w] = "unblock"]
    /\ UNCHANGED notPool
    /\ UNCHANGED <<thread_count, queue, queue_lock, is_empty, has_task, thread_lock,
                   mpc, mi, mjob, nsub>>

\* thread_lock_handle.unblock(), the store
WUnblock(w) ==
    /\ wpc[w] = "unblock"
    /\ thread_lock' = [thread_lock EXCEPT ![w] = FALSE]
    /\ wpc' = [wpc EXCEPT ![w] = "notify"]
    /\ UNCHANGED notPool
    /\ UNCHANGED <<thread_count, queue, queue_lock, is_empty, has_task,
                   wjob, mpc, mi, mjob, nsub, finished>>

\* thread_lock_handle.unblock(), the notify_one: wakes the thread inside wait()
WNotify(w) ==
    /\ wpc[w] = "notify"
    /\ mpc' = IF mpc = "thread_lock_parked" /\ mi = w THEN "thread_lock_wait" ELSE mpc
    /\ wpc' = [wpc EXCEPT ![w] = "get_job"]
    /\ UNCHANGED notPool
    /\ UNCHANGED <<thread_count, queue, queue_lock, is_empty, has_task, thread_lock,
                   wjob, mi, mjob, nsub, finished>>

(* execute -> assign_job *)

\* queue.lock().push_back(job)
MPushBack ==
    /\ mpc = "push_back"
    /\ queue_lock = 0
    /\ queue' = Append(queue, mjob)
    /\ mpc' = "is_empty_block"
    /\ UNCHANGED notPool
    /\ UNCHANGED <<thread_count, queue_lock, is_empty, has_task, thread_lock,
                   wpc, wjob, mi, mjob, nsub, finished>>

\* is_empty.block()
MIsEmptyBlock ==
    /\ mpc = "is_empty_block"
    /\ is_empty' = TRUE
    /\ mpc' = "has_task_unblock"
    /\ UNCHANGED notPool
    /\ UNCHANGED <<thread_count, queue, queue_lock, has_task, thread_lock,
                   wpc, wjob, mi, mjob, nsub, finished>>

\* Mutant: assign_job leaves the has_task gate as it is.
MHasTaskUnblock_Skip ==
    /\ mpc = "has_task_unblock"
    /\ mpc' = "has_task_notify"
    /\ UNCHANGED notPool
    /\ UNCHANGED <<thread_count, queue, queue_lock, is_empty, has_task, thread_lock,
                   wpc, wjob, mi, mjob, nsub, finished>>

\* has_task.unblock(), the store
MHasTaskUnblock ==
    /\ mpc = "has_task_unblock"
    /\ has_task' = FALSE
    /\ mpc' = "has_task_notify"
    /\ UNCHANGED notPool
    /\ UNCHANGED <<thread_count, queue, queue_lock, is_empty, thread_lock,
                   wpc, wjob, mi, mjob, nsub, finished>>

\* has_task.unblock(), the notify_one; execute returns
MHasTaskNotify ==
    /\ mpc = "has_task_notify"
    /\ \E v \in NotifyOneChoices : wpc' = Woken(0, "", v)
    /\ mpc' = "execute_ret"
    /\ UNCHANGED notPool
    /\ UNCHANGED <<thread_count, queue, queue_lock, is_empty, has_task, thread_lock,
                   wjob, mi, mjob, nsub, finished>>

(* wait *)

\* wait_for_clear -> is_empty.wait(): park while blocking
MWaitForClear ==
    /\ mpc = "wait_for_clear"
    /\ mpc' = IF is_empty THEN "is_empty_parked" ELSE "thread_lock_wait"
    /\ mi' = IF is_empty THEN mi ELSE 1
    /\ UNCHANGED notPool
    /\ UNCHANGED <<thread_count, queue, queue_lock, is_empty, has_task, thread_lock,
                   wpc, wjob, mjob, nsub, finished>>

\* for (lock, _) in pool.iter() { lock.wait() }: park while pool[mi] is blocking
MThreadLockWait ==
    /\ mpc = "thread_lock_wait"
    /\ mpc' = IF thread_lock[mi] THEN "thread_lock_parked"
              ELSE IF mi = thread_count THEN "wait_ret" ELSE "thread_lock_wait"
    /\ mi' = IF ~thread_lock[mi] /\ mi < thread_count THEN mi + 1 ELSE mi
    /\ UNCHANGED notPool
    /\ UNCHANGED <<thread_count, queue, queue_lock, is_empty, has_task, thread_lock,
                   wpc, wjob, mjob, nsub, finished>>

\* Condvar::wait may return without a notification.
MSpuriousWakeup ==
    /\ mpc \in {"is_empty_parked", "thread_lock_parked"}
    /\ mpc' = IF mpc = "is_empty_parked" THEN "wait_for_clear" ELSE "thread_lock_wait"
    /\ UNCHANGED notPool
    /\ UNCHANGED <<thread_count, queue, queue_lock, is_empty, has_task, thread_lock,
                   wpc, wjob, mi, mjob, nsub, finished>>

\* The steps of the threads of the pool and of the calls into it.
WorkerStep ==
    \/ \E w \in Workers : WHasTaskWait(w)
    \/ \E w \in Workers : WSpuriousWakeup(w)
    \/ \E w \in Workers : WPopFront(w)
    \/ \E w \in Workers : WSomeUnblock(w)
    \/ \E w \in Workers : WSomeNotify(w)
    \/ \E w \in Workers : WNoneUnblock(w)
    \/ \E w \in Workers : WNoneNotify(w)
    \/ \E w \in Workers : WNoneBlock(w)
    \/ \E w \in Workers : WBlock(w)
    \/ \E w \in Workers : WUnblock(w)
    \/ \E w \in Workers : WNotify(w)

CallStep ==
    \/ MPushBack
    \/ MIsEmptyBlock
    \/ MHasTaskUnblock
    \/ MHasTaskNotify
    \/ MWaitForClear
    \/ MThreadLockWait
    \/ MSpuriousWakeup

(* ------------- SpecPool: a caller that submits jobs and waits --------- *)

InitPool ==
    /\ next_entity_id = 0
    /\ dead_entities = <<>>
    /\ components = EmptyMap
    /\ entities_to_kill = {}
    /\ ret = Ret("new", None, "", <<>>, "Ok", None, <<>>)
    /\ issued = {}
    /\ freeLog = <<>>
    /\ live = {}
    /\ lastAdded = EmptyMap
    /\ held = EmptyMap
    /\ InitMore
    /\ system_list = EmptyMap
    /\ system_parallels = <<>>
    /\ \E n \in 1..MaxThreads : InitThreadPool(n)
    /\ InitSystems

\* pool.execute(job) is called
PoolExecute ==
    /\ mpc \in {"idle", "execute_ret", "wait_ret"}
    /\ nsub < MaxJobs
    /\ nsub' = nsub + 1
    /\ mjob' = Job(nsub + 1, "", "", 0, <<>>)
    /\ mpc' = "push_back"
    /\ UNCHANGED notPool
    /\ UNCHANGED <<thread_count, queue, queue_lock, is_empty, has_task, thread_lock,
                   wpc, wjob, mi, finished>>

\* pool.wait() is called
PoolWait ==
    /\ mpc \in {"idle", "execute_ret", "wait_ret"}
    /\ mpc' = "wait_for_clear"
    /\ UNCHANGED notPool
    /\ UNCHANGED <<thread_count, queue, queue_lock, is_empty, has_task, thread_lock,
                   wpc, wjob, mi, mjob, nsub, finished>>

NextPool ==
    \/ PoolExecute
    \/ PoolWait
    \/ CallStep
    \/ WorkerStep
    \/ \E w \in Workers : WJobStart(w)
    \/ \E w \in Workers : WJobEnd(w)

SpecPool == InitPool /\ [][NextPool]_vars

\* Every step worker w takes by itself: its loop and its job. A wakeup without a
\* notification is not among them: nothing promises one.
WorkerRuns(w) ==
    /\ w \in Workers
    /\ \/ WHasTaskWait(w)
       \/ WPopFront(w)
       \/ WSomeUnblock(w)
       \/ WSomeNotify(w)
       \/ WNoneUnblock(w)
       \/ WNoneNotify(w)
       \/ WNoneBlock(w)
       \/ WBlock(w)
       \/ WJobStart(w)
       \/ WJobEnd(w)
       \/ WUnblock(w)
       \/ WNotify(w)

\* The steps of the calling thread inside execute and wait, spurious wakeups aside.
CallRuns ==
    \/ MPushBack
    \/ MIsEmptyBlock
    \/ MHasTaskUnblock
    \/ MHasTaskNotify
    \/ MWaitForClear
    \/ MThreadLockWait

\* The pool under a fair scheduler: a thread that can run again and again does
\* run (also when it competes for the queue's mutex), and every job returns.
SpecPoolFair ==
    /\ InitPool
    /\ [][NextPool]_vars
    /\ SF_vars(CallRuns)
    /\ \A w \in 1..MaxThreads : SF_vars(WorkerRuns(w))

(* ------------------- SpecEM: EntityManager by itself ------------------ *)

InitEcs ==
    /\ next_entity_id = 0
    /\ dead_entities = <<>>
    /\ components = EmptyMap
    /\ entities_to_kill = {}
    /\ ret = Ret("new", None, "", <<>>, "Ok", None, <<>>)
    /\ issued = {}
    /\ freeLog = <<>>
    /\ live = {}
    /\ lastAdded = EmptyMap
    /\ held = EmptyMap
    /\ InitMore
    /\ system_list = EmptyMap
    /\ system_parallels = <<>>
    /\ InitThreadPool(1)
    /\ InitSystems

EMCreate ==
    LET r == EM_create_entity(next_entity_id, dead_entities) IN
    /\ next_entity_id' = r.next
    /\ dead_entities' = r.dead
    /\ ret' = Ret("create_entity", None, "", <<>>, r.res, r.val, <<>>)
    /\ issued' = IF r.res = "Ok" THEN issued \cup {r.val} ELSE issued
    /\ freeLog' = IF r.res = "Ok" THEN SelectSeq(freeLog, LAMBDA x : x # r.val) ELSE freeLog
    /\ live' = IF r.res = "Ok" THEN live \cup {r.val} ELSE live
    /\ UNCHANGED <<sysVars, poolVars, schedVars, callerVars, moreVars>> /\ UNCHANGED <<components, entities_to_kill>>

EMDestroy ==
    \E e \in Handles :
        /\ dead_entities' = EM_destroy_entity(next_entity_id, dead_entities, e)
        /\ ret' = Ret("destroy_entity", e, "", <<>>, "Ok", None, <<>>)
        /\ freeLog' = IF e \in live THEN Append(freeLog, e) ELSE freeLog
        /\ live' = live \ {e}
        /\ UNCHANGED <<sysVars, poolVars, schedVars, callerVars, moreVars>> /\ UNCHANGED <<next_entity_id, components, entities_to_kill, issued>>

EMGetLivingEntities ==
    /\ ret' = Ret("get_living_entities", None, "", <<>>, "Ok", None,
                  get_living_entities(next_entity_id, dead_entities))
    /\ UNCHANGED <<sysVars, poolVars, schedVars, callerVars, moreVars>> /\ UNCHANGED <<next_entity_id, dead_entities, components, entities_to_kill,
                   issued, freeLog, live>>

EMDoesEntityExist ==
    \E e \in Handles :
        /\ ret' = Ret("does_entity_exist", e, "", <<>>, "Ok",
                      IF does_entity_exist(next_entity_id, dead_entities, e) THEN 1 ELSE 0,
                      <<>>)
        /\ UNCHANGED <<sysVars, poolVars, schedVars, callerVars, moreVars>> /\ UNCHANGED <<next_entity_id, dead_entities, components, entities_to_kill,
                       issued, freeLog, live>>

NextEM == EMCreate \/ EMDestroy \/ EMGetLivingEntities \/ EMDoesEntityExist

SpecEM == InitEcs /\ [][NextEM]_vars

(* ------------------- SpecScene: the scene-state surface --------------- *)

SceneCreateEntity ==
    LET r == EM_create_entity(next_entity_id, dead_entities) IN
    /\ dead_entities # <<>> \/ next_entity_id < MaxEntities
    /\ next_entity_id' = r.next
    /\ dead_entities' = r.dead
    /\ ret' = Ret("create_entity", None, "", <<>>, r.res, r.val, <<>>)
    /\ issued' = IF r.res = "Ok" THEN issued \cup {r.val} ELSE issued
    /\ freeLog' = IF r.res = "Ok" THEN SelectSeq(freeLog, LAMBDA x : x # r.val) ELSE freeLog
    /\ live' = IF r.res = "Ok" THEN live \cup {r.val} ELSE live
    /\ UNCHANGED <<sysVars, poolVars, schedVars, callerVars, moreVars>> /\ UNCHANGED <<components, entities_to_kill>>

SceneDestroyEntity ==
    \E e \in Handles :
        LET r == Scene_destroy_entity(next_entity_id, dead_entities, entities_to_kill, e) IN
        /\ entities_to_kill' = r.kill
        /\ ret' = Ret("destroy_entity", e, "", <<>>, r.res, None, <<>>)
        /\ UNCHANGED <<sysVars, poolVars, schedVars, callerVars, moreVars>> /\ UNCHANGED <<next_entity_id, dead_entities, components, issued, freeLog, live>>

SceneCullEntities ==
    \E order \in Orders(entities_to_kill) :
        LET st == CullLoop(next_entity_id,
                           [comps |-> components, dead |-> dead_entities], order) IN
        /\ entities_to_kill' = {}
        /\ components' = st.comps
        /\ dead_entities' = st.dead
        /\ ret' = Ret("cull_entities", None, "", <<>>, "Ok", None, order)
        /\ freeLog' = freeLog \o SelectSeq(order, LAMBDA x : x \in live)
        /\ live' = live \ entities_to_kill
        /\ UNCHANGED <<sysVars, poolVars, schedVars, callerVars, moreVars>> /\ UNCHANGED <<next_entity_id, issued>>

SceneRegisterComponent ==
    \E c \in ComponentTypes :
        /\ components' = CM_register_component(components, c)
        /\ ret' = Ret("register_component", None, c, <<>>, "Ok", None, <<>>)
        /\ UNCHANGED <<sysVars, poolVars, schedVars, callerVars, moreVars>> /\ UNCHANGED <<next_entity_id, dead_entities, entities_to_kill, issued, freeLog, live>>

SceneAddComponent ==
    \E e \in Handles, c \in ComponentTypes :
        LET r == Scene_add_component(next_entity_id, dead_entities, components,
                                     e, c, SomeValue) IN
        /\ components' = r.components
        /\ ret' = Ret("add_component", e, c, <<>>, r.res, None, <<>>)
        /\ UNCHANGED <<sysVars, poolVars, schedVars, callerVars, moreVars>> /\ UNCHANGED <<next_entity_id, dead_entities, entities_to_kill, issued, freeLog, live>>

SceneRemoveComponent ==
    \E e \in Handles, c \in ComponentTypes :
        LET r == Scene_remove_component(next_entity_id, dead_entities, components, e, c) IN
        /\ components' = r.components
        /\ ret' = Ret("remove_component", e, c, <<>>, r.res, None, <<>>)
        /\ UNCHANGED <<sysVars, poolVars, schedVars, callerVars, moreVars>> /\ UNCHANGED <<next_entity_id, dead_entities, entities_to_kill, issued, freeLog, live>>

SceneHasComponents ==
    \E e \in Handles, keys \in KeyLists :
        LET r == CM_has_components(components, e, keys) IN
        /\ ret' = Ret("has_components", e, "", keys, r.res, IF r.val THEN 1 ELSE 0, <<>>)
        /\ UNCHANGED <<sysVars, poolVars, schedVars, callerVars, moreVars>> /\ UNCHANGED <<next_entity_id, dead_entities, components, entities_to_kill,
                       issued, freeLog, live>>

SceneGetLivingEntities ==
    /\ ret' = Ret("get_living_entities", None, "", <<>>, "Ok", None,
                  get_living_entities(next_entity_id, dead_entities))
    /\ UNCHANGED <<sysVars, poolVars, schedVars, callerVars, moreVars>> /\ UNCHANGED <<next_entity_id, dead_entities, components, entities_to_kill,
                   issued, freeLog, live>>

NextScene ==
    \/ SceneCreateEntity
    \/ SceneGetLivingEntities
    \/ SceneDestroyEntity
    \/ SceneCullEntities
    \/ SceneRegisterComponent
    \/ SceneAddComponent
    \/ SceneRemoveComponent
    \/ SceneHasComponents

SpecScene == InitEcs /\ [][NextScene]_vars

(* ---- SpecDestroy: destroy_entity of both layers over one registry ---- *)

\* EntityManager::destroy_entity and SceneState::destroy_entity, each called with
\* any handle, on a registry that create_entity fills.
NextDestroy == EMCreate \/ EMDestroy \/ SceneDestroyEntity

SpecDestroy == InitEcs /\ [][NextDestroy]_vars

(* ------- SpecHandles: the Entity handles code outside the ECS holds ---- *)

\* The number of handles to id e among the handles h.
HeldCount(h, e) == IF e \in DOMAIN h THEN h[e] ELSE 0

\* One more handle to each id of the list: Entity(id) values built by the ECS.
RECURSIVE GiveAll(_, _)
GiveAll(h, list) ==
    IF list = <<>> THEN h
    ELSE GiveAll(Put(h, Head(list), HeldCount(h, Head(list)) + 1), Tail(list))

\* create_entity: the caller receives the handle.
HCreateEntity ==
    LET r == EM_create_entity(next_entity_id, dead_entities) IN
    /\ dead_entities # <<>> \/ next_entity_id < MaxEntities
    /\ r.res = "Ok" => HeldCount(held, r.val) < MaxHeld
    /\ next_entity_id' = r.next
    /\ dead_entities' = r.dead
    /\ ret' = Ret("create_entity", None, "", <<>>, r.res, r.val, <<>>)
    /\ held' = IF r.res = "Ok" THEN GiveAll(held, <<r.val>>) ELSE held
    /\ issued' = IF r.res = "Ok" THEN issued \cup {r.val} ELSE issued
    /\ freeLog' = IF r.res = "Ok" THEN SelectSeq(freeLog, LAMBDA x : x # r.val) ELSE freeLog
    /\ live' = IF r.res = "Ok" THEN live \cup {r.val} ELSE live
    /\ UNCHANGED <<sysVars, poolVars, schedVars, moreVars, lastAdded>>
    /\ UNCHANGED <<components, entities_to_kill>>

\* get_living_entities: the caller receives a Vec of new handles, one for
\* every living id.
HGetLivingEntities ==
    LET list == get_living_entities(next_entity_id, dead_entities) IN
    /\ \A i \in DOMAIN list : HeldCount(held, list[i]) < MaxHeld
    /\ ret' = Ret("get_living_entities", None, "", <<>>, "Ok", None, list)
    /\ held' = GiveAll(held, list)
    /\ UNCHANGED <<sysVars, poolVars, schedVars, moreVars, lastAdded>>
    /\ UNCHANGED <<next_entity_id, dead_entities, components, entities_to_kill,
                   issued, freeLog, live>>

\* A lifecycle driver hands entity.clone() to a system callback.
HCallback ==
    \E e \in Range(get_living_entities(next_entity_id, dead_entities)) :
        /\ HeldCount(held, e) < MaxHeld
        /\ ret' = Ret("callback", e, "", <<>>, "Ok", None, <<>>)
        /\ held' = GiveAll(held, <<e>>)
        /\ UNCHANGED <<sysVars, poolVars, schedVars, moreVars, lastAdded>>
        /\ UNCHANGED <<next_entity_id, dead_entities, components, entities_to_kill,
                       issued, freeLog, live>>

\* destroy_entity(entity: Entity): the caller gives up one of its handles.
HDestroyEntity ==
    \E e \in {x \in DOMAIN held : held[x] > 0} :
        LET r == Scene_destroy_entity(next_entity_id, dead_entities, entities_to_kill, e) IN
        /\ entities_to_kill' = r.kill
        /\ ret' = Ret("destroy_entity", e, "", <<>>, r.res, None, <<>>)
        /\ held' = [held EXCEPT ![e] = @ - 1]
        /\ UNCHANGED <<sysVars, poolVars, schedVars, moreVars, lastAdded>>
        /\ UNCHANGED <<next_entity_id, dead_entities, components, issued, freeLog, live>>

\* cull_entities at the end of the tick.
HCullEntities ==
    \E order \in Orders(entities_to_kill) :
        LET st == CullLoop(next_entity_id,
                           [comps |-> components, dead |-> dead_entities], order) IN
        /\ entities_to_kill' = {}
        /\ components' = st.comps
        /\ dead_entities' = st.dead
        /\ ret' = Ret("cull_entities", None, "", <<>>, "Ok", None, order)
        /\ freeLog' = freeLog \o SelectSeq(order, LAMBDA x : x \in live)
        /\ live' = live \ entities_to_kill
        /\ UNCHANGED <<sysVars, poolVars, schedVars, callerVars, moreVars>>
        /\ UNCHANGED <<next_entity_id, issued>>

NextHandles ==
    \/ HCreateEntity
    \/ HGetLivingEntities
    \/ HCallback
    \/ HDestroyEntity
    \/ HCullEntities

SpecHandles == InitEcs /\ [][NextHandles]_vars

(* ------------------- SpecCM: ComponentManager by itself --------------- *)

\* The component values passed to add_component.
Values == {SomeValue, SomeValue + 1}

\* The entity handles passed to the store, which does not check that they exist.
CMEntities == 0..(MaxEntities - 1)

CMRegisterComponent ==
    \E c \in ComponentTypes :
        /\ components' = CM_register_component(components, c)
        /\ ret' = Ret("register_component", None, c,
                      <<CM_register_component_key(components, c)>>, "Ok", None, <<>>)
        /\ UNCHANGED <<sysVars, poolVars, schedVars, moreVars, held>>
        /\ UNCHANGED <<next_entity_id, dead_entities, entities_to_kill, issued, freeLog,
                       live, lastAdded>>

CMIsComponentRegistered ==
    \E c \in ComponentTypes :
        /\ ret' = Ret("is_component_registered", None, c, <<>>, "Ok",
                      IF is_component_registered(components, c) THEN 1 ELSE 0, <<>>)
        /\ UNCHANGED <<sysVars, poolVars, schedVars, callerVars, moreVars>>
        /\ UNCHANGED <<next_entity_id, dead_entities, components, entities_to_kill,
                       issued, freeLog, live>>

CMAddComponent ==
    \E e \in CMEntities, c \in ComponentTypes, v \in Values :
        LET r == CM_add_component(components, e, c, v) IN
        /\ components' = r.components
        /\ ret' = Ret("add_component", e, c, <<>>, r.res, v, <<>>)
        /\ lastAdded' = IF r.res = "Ok" THEN Put(lastAdded, <<c, e>>, v) ELSE lastAdded
        /\ UNCHANGED <<sysVars, poolVars, schedVars, moreVars, held>>
        /\ UNCHANGED <<next_entity_id, dead_entities, entities_to_kill, issued, freeLog, live>>

CMRemoveComponent ==
    \E e \in CMEntities, c \in ComponentTypes :
        LET r == CM_remove_component(components, e, c) IN
        /\ components' = r.components
        /\ ret' = Ret("remove_component", e, c, <<>>, r.res, None, <<>>)
        /\ lastAdded' = IF r.res = "Ok" THEN Del(lastAdded, <<c, e>>) ELSE lastAdded
        /\ UNCHANGED <<sysVars, poolVars, schedVars, moreVars, held>>
        /\ UNCHANGED <<next_entity_id, dead_entities, entities_to_kill, issued, freeLog, live>>

CMRemoveComponents ==
    \E e \in CMEntities :
        LET r == CM_remove_components(components, e) IN
        /\ components' = r.components
        /\ ret' = Ret("remove_components", e, "", <<>>, r.res, None, <<>>)
        /\ lastAdded' = [k \in {x \in DOMAIN lastAdded : x[2] # e} |-> lastAdded[k]]
        /\ UNCHANGED <<sysVars, poolVars, schedVars, moreVars, held>>
        /\ UNCHANGED <<next_entity_id, dead_entities, entities_to_kill, issued, freeLog, live>>

CMHasComponents ==
    \E e \in CMEntities, keys \in KeyLists :
        LET r == CM_has_components(components, e, keys) IN
        /\ ret' = Ret("has_components", e, "", keys, r.res, IF r.val THEN 1 ELSE 0, <<>>)
        /\ UNCHANGED <<sysVars, poolVars, schedVars, callerVars, moreVars>>
        /\ UNCHANGED <<next_entity_id, dead_entities, components, entities_to_kill,
                       issued, freeLog, live>>

CMGetComponent ==
    \E e \in CMEntities, c \in ComponentTypes :
        LET r == CM_get_component(components, e, c) IN
        /\ ret' = Ret("get_component", e, c, <<>>, r.res, r.val, <<>>)
        /\ UNCHANGED <<sysVars, poolVars, schedVars, callerVars, moreVars>>
        /\ UNCHANGED <<next_entity_id, dead_entities, components, entities_to_kill,
                       issued, freeLog, live>>

NextCM ==
    \/ CMRegisterComponent
    \/ CMIsComponentRegistered
    \/ CMAddComponent
    \/ CMRemoveComponent
    \/ CMRemoveComponents
    \/ CMHasComponents
    \/ CMGetComponent

SpecCM == InitEcs /\ [][NextCM]_vars

(* ------ SpecStore: ComponentManager called from several threads ------- *)

\* The rest of the model outside the store and its callers.
notStore == <<sysVars, poolVars, schedVars, logVars, mgrVars, held>>

\* add_component, remove_component or get_component is called and evaluates the
\* scrutinee of its outer if let: self.components.lock().unwrap().get(&TypeId).
\* The guard is a temporary of the scrutinee and lives to the end of the if let.
StLockComponents(t) ==
    \E op \in {"add_component", "remove_component", "get_component"},
       c \in ComponentTypes, e \in CMEntities :
        /\ tpc[t].pc = "idle"
        /\ components_lock = 0
        /\ components_lock' = t
        /\ tpc' = [tpc EXCEPT ![t] =
                     [pc |-> IF c \in DOMAIN components THEN "lock_array"
                             ELSE "unlock_components",
                      op |-> op, comp |-> c, ent |-> e, val |-> None,
                      res |-> IF c \in DOMAIN components THEN ""
                              ELSE "ComponentNotRegistered",
                      todo |-> {}]]
        /\ UNCHANGED <<notStore, array_lock, lastAdded>>
        /\ UNCHANGED ecsVars

\* v.lock().unwrap(): the array's mutex.
StLockArray(t) ==
    /\ tpc[t].pc = "lock_array"
    /\ array_lock[tpc[t].comp] = 0
    /\ array_lock' = [array_lock EXCEPT ![tpc[t].comp] = t]
    /\ tpc' = [tpc EXCEPT ![t].pc =
                 CASE tpc[t].op = "add_component" -> "insert"
                   [] tpc[t].op = "remove_component" -> "remove"
                   [] OTHER -> "has_entity_data"]
    /\ UNCHANGED <<notStore, components_lock, lastAdded>>
    /\ UNCHANGED ecsVars

\* add_component: v.insert(entity.clone(), component)
StInsert(t) ==
    /\ tpc[t].pc = "insert"
    /\ components' = [components EXCEPT ![tpc[t].comp] = Put(@, tpc[t].ent, SomeValue)]
    /\ lastAdded' = Put(lastAdded, <<tpc[t].comp, tpc[t].ent>>, SomeValue)
    /\ tpc' = [tpc EXCEPT ![t].pc = "unlock_array", ![t].res = "Ok"]
    /\ UNCHANGED <<notStore, components_lock, array_lock>>
    /\ UNCHANGED <<next_entity_id, dead_entities, entities_to_kill, ret, issued, freeLog,
                   live>>

\* remove_component: v.remove(entity)
StRemove(t) ==
    /\ tpc[t].pc = "remove"
    /\ components' = [components EXCEPT ![tpc[t].comp] = Del(@, tpc[t].ent)]
    /\ lastAdded' = Del(lastAdded, <<tpc[t].comp, tpc[t].ent>>)
    /\ tpc' = [tpc EXCEPT ![t].pc = "unlock_array", ![t].res = "Ok"]
    /\ UNCHANGED <<notStore, components_lock, array_lock>>
    /\ UNCHANGED <<next_entity_id, dead_entities, entities_to_kill, ret, issued, freeLog,
                   live>>

\* Mutant: the map's guard is dropped once the array has been looked up.
StHasEntityData_ReleaseOuter(t) ==
    /\ tpc[t].pc = "has_entity_data"
    /\ array_lock' = [array_lock EXCEPT ![tpc[t].comp] = 0]
    /\ components_lock' = 0
    /\ tpc' = [tpc EXCEPT ![t].pc = IF tpc[t].ent \in DOMAIN components[tpc[t].comp]
                                    THEN "lock_array_again" ELSE "unlock_components",
                          ![t].res = IF tpc[t].ent \in DOMAIN components[tpc[t].comp]
                                     THEN "" ELSE "EntityDoesNotOwnComponent"]
    /\ UNCHANGED <<notStore, lastAdded>>
    /\ UNCHANGED ecsVars

\* get_component: if v.lock().unwrap().has_entity_data(entity); the array's
\* guard is a temporary of the condition and is dropped at its end.
StHasEntityData(t) ==
    /\ tpc[t].pc = "has_entity_data"
    /\ array_lock' = [array_lock EXCEPT ![tpc[t].comp] = 0]
    /\ tpc' = [tpc EXCEPT ![t].pc = IF tpc[t].ent \in DOMAIN components[tpc[t].comp]
                                    THEN "lock_array_again" ELSE "unlock_components",
                          ![t].res = IF tpc[t].ent \in DOMAIN components[tpc[t].comp]
                                     THEN "" ELSE "EntityDoesNotOwnComponent"]
    /\ UNCHANGED <<notStore, components_lock, lastAdded>>
    /\ UNCHANGED ecsVars

\* get_component: the array's mutex is locked a second time.
StLockArrayAgain(t) ==
    /\ tpc[t].pc = "lock_array_again"
    /\ array_lock[tpc[t].comp] = 0
    /\ array_lock' = [array_lock EXCEPT ![tpc[t].comp] = t]
    /\ tpc' = [tpc EXCEPT ![t].pc = "get_mut"]
    /\ UNCHANGED <<notStore, components_lock, lastAdded>>
    /\ UNCHANGED ecsVars

\* get_component: v.get_mut(entity).expect(..). On None the thread panics and
\* unwinds, which drops the guards it holds.
StGetMut(t) ==
    /\ tpc[t].pc = "get_mut"
    /\ LET c == tpc[t].comp
           e == tpc[t].ent
           found == c \in DOMAIN components /\ e \in DOMAIN components[c]
       IN /\ tpc' = [tpc EXCEPT ![t].pc = IF found THEN "unlock_array" ELSE "panicked",
                                ![t].res = IF found THEN "Ok" ELSE "panic",
                                ![t].val = IF found THEN components[c][e] ELSE None]
          /\ array_lock' = IF found THEN array_lock ELSE [array_lock EXCEPT ![c] = 0]
          /\ components_lock' = IF found \/ components_lock # t THEN components_lock ELSE 0
    /\ UNCHANGED <<notStore, lastAdded>>
    /\ UNCHANGED ecsVars

\* The end of the inner if let: the array's guard is dropped.
StUnlockArray(t) ==
    /\ tpc[t].pc = "unlock_array"
    /\ array_lock' = [array_lock EXCEPT ![tpc[t].comp] = 0]
    /\ tpc' = [tpc EXCEPT ![t].pc = "unlock_components"]
    /\ UNCHANGED <<notStore, components_lock, lastAdded>>
    /\ UNCHANGED ecsVars

\* The end of the outer if let: the map's guard is dropped and the call
\* returns what the thread has in res and val.
StUnlockComponents(t) ==
    /\ tpc[t].pc = "unlock_components"
    /\ components_lock' = IF components_lock = t THEN 0 ELSE components_lock
    /\ tpc' = [tpc EXCEPT ![t] = IdleThread]
    /\ UNCHANGED <<notStore, array_lock, lastAdded>>
    /\ UNCHANGED ecsVars

\* remove_components is called: for comp_arr in self.components.lock().unwrap().iter();
\* the guard lives as long as the loop.
StRemoveComponentsLock(t) ==
    \E e \in CMEntities :
        /\ tpc[t].pc = "idle"
        /\ components_lock = 0
        /\ components_lock' = t
        /\ tpc' = [tpc EXCEPT ![t] =
                     [pc |-> "for_array", op |-> "remove_components", comp |-> "",
                      ent |-> e, val |-> None, res |-> "", todo |-> DOMAIN components]]
        /\ UNCHANGED <<notStore, array_lock, lastAdded>>
        /\ UNCHANGED ecsVars

\* The loop body for the next array, in the map's iteration order:
\* comp_arr.1.lock().unwrap().remove_component(entity)
StRemoveComponentsNext(t) ==
    \E c \in tpc[t].todo :
        /\ tpc[t].pc = "for_array"
        /\ array_lock[c] = 0
        /\ components' = [components EXCEPT ![c] = Del(@, tpc[t].ent)]
        /\ lastAdded' = Del(lastAdded, <<c, tpc[t].ent>>)
        /\ tpc' = [tpc EXCEPT ![t].todo = @ \ {c}]
        /\ UNCHANGED <<notStore, components_lock, array_lock>>
        /\ UNCHANGED <<next_entity_id, dead_entities, entities_to_kill, ret, issued,
                       freeLog, live>>

\* The loop has ended: the map's guard is dropped and Ok(()) returned.
StRemoveComponentsEnd(t) ==
    /\ tpc[t].pc = "for_array"
    /\ tpc[t].todo = {}
    /\ components_lock' = 0
    /\ tpc' = [tpc EXCEPT ![t] = IdleThread]
    /\ UNCHANGED <<notStore, array_lock, lastAdded>>
    /\ UNCHANGED ecsVars

\* register_component is called: self.is_component_registered(&type_id) locks the
\* map, reads contains_key and unlocks. A registered type is returned at once.
StIsComponentRegistered(t) ==
    \E c \in ComponentTypes :
        /\ tpc[t].pc = "idle"
        /\ components_lock = 0
        /\ tpc' = [tpc EXCEPT ![t] =
                     IF is_component_registered(components, c) THEN IdleThread
                     ELSE [pc |-> "insert_array", op |-> "register_component",
                           comp |-> c, ent |-> None, val |-> None, res |-> "",
                           todo |-> {}]]
        /\ UNCHANGED <<notStore, components_lock, array_lock, lastAdded>>
        /\ UNCHANGED ecsVars

\* register_component, else branch: self.components.lock().unwrap().insert(type_id,
\* Mutex::new(Box::default())), which replaces an array already stored under the key.
StInsertArray(t) ==
    /\ tpc[t].pc = "insert_array"
    /\ components_lock = 0
    /\ components' = Put(components, tpc[t].comp, EmptyMap)
    /\ tpc' = [tpc EXCEPT ![t] = IdleThread]
    /\ UNCHANGED <<notStore, components_lock, array_lock, lastAdded>>
    /\ UNCHANGED <<next_entity_id, dead_entities, entities_to_kill, ret, issued, freeLog,
                   live>>

NextStore ==
    \/ \E t \in Threads : StLockComponents(t)
    \/ \E t \in Threads : StLockArray(t)
    \/ \E t \in Threads : StInsert(t)
    \/ \E t \in Threads : StRemove(t)
    \/ \E t \in Threads : StHasEntityData(t)
    \/ \E t \in Threads : StLockArrayAgain(t)
    \/ \E t \in Threads : StGetMut(t)
    \/ \E t \in Threads : StUnlockArray(t)
    \/ \E t \in Threads : StUnlockComponents(t)
    \/ \E t \in Threads : StRemoveComponentsLock(t)
    \/ \E t \in Threads : StRemoveComponentsNext(t)
    \/ \E t \in Threads : StRemoveComponentsEnd(t)
    \/ \E t \in Threads : StIsComponentRegistered(t)
    \/ \E t \in Threads : StInsertArray(t)

SpecStore == InitEcs /\ [][NextStore]_vars

(* ---- SpecRegistry: EntityManager::create_entity from several threads -- *)

\* SceneState is reached from every worker through UnsafeSceneStateCell, and the
\* registry's fields are RefCells: nothing orders the reads and writes of two
\* create_entity calls. Each read and each write below is one step; `+= 1` is a
\* read and a write. The borrow flags of the RefCells, which the same race can
\* make a call panic on, are left out.

\* The rest of the model outside the registry and its callers.
notRegistry == <<sysVars, poolVars, schedVars, callerVars, logVars, mgrVars,
                 components_lock, array_lock>>

U32 == U32_MAX + 1

\* create_entity is called: !self.dead_entities.borrow().is_empty()
RgIsEmpty(t) ==
    /\ tpc[t].pc = "idle"
    /\ tpc' = [tpc EXCEPT ![t] =
                 [pc |-> IF dead_entities # <<>> THEN "pop_front" ELSE "check_max",
                  op |-> "create_entity", comp |-> "", ent |-> None, val |-> None,
                  res |-> "", todo |-> {}]]
    /\ UNCHANGED <<notRegistry, ecsVars>>

\* self.dead_entities.borrow_mut().pop_front().unwrap(): a panic on None
RgPopFront(t) ==
    /\ tpc[t].pc = "pop_front"
    /\ dead_entities' = IF dead_entities # <<>> THEN Tail(dead_entities) ELSE dead_entities
    /\ tpc' = [tpc EXCEPT ![t].pc = IF dead_entities # <<>> THEN "return" ELSE "panicked",
                          ![t].res = IF dead_entities # <<>> THEN "Ok" ELSE "panic",
                          ![t].val = IF dead_entities # <<>> THEN Head(dead_entities)
                                     ELSE None]
    /\ UNCHANGED notRegistry
    /\ UNCHANGED <<next_entity_id, components, entities_to_kill, ret, issued, freeLog, live>>

\* *self.next_entity_id.borrow() == u32::MAX
RgCheckMax(t) ==
    /\ tpc[t].pc = "check_max"
    /\ tpc' = [tpc EXCEPT ![t].pc = IF next_entity_id = U32_MAX THEN "return" ELSE "load",
                          ![t].res = IF next_entity_id = U32_MAX THEN "EntityMaxReached"
                                     ELSE ""]
    /\ UNCHANGED <<notRegistry, ecsVars>>

\* *self.next_entity_id.borrow_mut() += 1, the read
RgLoad(t) ==
    /\ tpc[t].pc = "load"
    /\ tpc' = [tpc EXCEPT ![t].pc = "store", ![t].val = next_entity_id]
    /\ UNCHANGED <<notRegistry, ecsVars>>

\* *self.next_entity_id.borrow_mut() += 1, the write. Past u32::MAX the addition
\* panics in a build with overflow checks and wraps in one without.
RgStore(t) ==
    /\ tpc[t].pc = "store"
    /\ \E checked \in BOOLEAN :
          IF tpc[t].val + 1 = U32 /\ checked
          THEN /\ tpc' = [tpc EXCEPT ![t].pc = "panicked", ![t].res = "panic",
                                     ![t].val = None]
               /\ UNCHANGED next_entity_id
          ELSE /\ next_entity_id' = (tpc[t].val + 1) % U32
               /\ tpc' = [tpc EXCEPT ![t].pc = "read", ![t].val = None]
    /\ UNCHANGED notRegistry
    /\ UNCHANGED <<dead_entities, components, entities_to_kill, ret, issued, freeLog, live>>

\* Ok(Entity(*self.next_entity_id.borrow() - 1)); below zero the subtraction
\* panics or wraps, as the addition does.
RgRead(t) ==
    /\ tpc[t].pc = "read"
    /\ \E checked \in BOOLEAN :
          IF next_entity_id = 0 /\ checked
          THEN tpc' = [tpc EXCEPT ![t].pc = "panicked", ![t].res = "panic"]
          ELSE tpc' = [tpc EXCEPT ![t].pc = "return", ![t].res = "Ok",
                                  ![t].val = (next_entity_id + U32 - 1) % U32]
    /\ UNCHANGED <<notRegistry, ecsVars>>

\* create_entity returns to the callback.
RgReturn(t) ==
    /\ tpc[t].pc = "return"
    /\ ret' = Ret("create_entity", None, "", <<>>, tpc[t].res, tpc[t].val, <<>>)
    /\ issued' = IF tpc[t].res = "Ok" THEN issued \cup {tpc[t].val} ELSE issued
    /\ freeLog' = IF tpc[t].res = "Ok"
                  THEN SelectSeq(freeLog, LAMBDA x : x # tpc[t].val) ELSE freeLog
    /\ live' = IF tpc[t].res = "Ok" THEN live \cup {tpc[t].val} ELSE live
    /\ tpc' = [tpc EXCEPT ![t] = IdleThread]
    /\ UNCHANGED notRegistry
    /\ UNCHANGED <<next_entity_id, dead_entities, components, entities_to_kill>>

\* Between two passes, with no callback running, the thread that drives the scene
\* frees an entity (cull_entities -> EntityManager::destroy_entity).
RgDestroy ==
    /\ \A t \in Threads : tpc[t].pc = "idle"
    /\ EMDestroy

NextRegistry ==
    \/ \E t \in Threads : RgIsEmpty(t)
    \/ \E t \in Threads : RgPopFront(t)
    \/ \E t \in Threads : RgCheckMax(t)
    \/ \E t \in Threads : RgLoad(t)
    \/ \E t \in Threads : RgStore(t)
    \/ \E t \in Threads : RgRead(t)
    \/ \E t \in Threads : RgReturn(t)
    \/ RgDestroy

SpecRegistry == InitEcs /\ [][NextRegistry]_vars

(* ------------------- SpecReg: system registration --------------------- *)

RegisterSystem ==
    \E system_id \in SystemTypes, signature \in Signatures :
        LET r == add_system(system_list, system_parallels, system_id, signature) IN
        /\ system_list' = r.list
        /\ system_parallels' = r.parallels
        /\ ret' = Ret("register_system", None, system_id, signature, "Ok", None, <<>>)
        /\ UNCHANGED <<poolVars, schedVars, callerVars, moreVars>>
        /\ UNCHANGED <<next_entity_id, dead_entities, components, entities_to_kill,
                       issued, freeLog, live>>

NextReg == RegisterSystem

SpecReg == InitEcs /\ [][NextReg]_vars

(* ------ SpecSched: the lifecycle drivers of Systems on the pool ------- *)

\* The registrations the scene is set up with, in the order they are made: they
\* give the batches [A, B] and [C], with B and C sharing Physics.
Registrations ==
    << <<"A", <<>> >>, <<"B", <<"Position", "Physics">> >>, <<"C", <<"Physics">> >> >>

\* register_system for each entry of regs, in order.
RECURSIVE RegisterAll(_, _)
RegisterAll(st, regs) ==
    IF regs = <<>> THEN st
    ELSE RegisterAll(add_system(st.list, st.parallels, Head(regs)[1], Head(regs)[2]),
                     Tail(regs))

\* The store of the scene: both types registered, entity 0 with a Position and
\* a Physics, entity 1 with a Position.
SceneComponents ==
    LET c1 == CM_register_component(EmptyMap, "Position")
        c2 == CM_register_component(c1, "Physics")
        c3 == CM_add_component(c2, 0, "Position", SomeValue).components
        c4 == CM_add_component(c3, 0, "Physics", SomeValue).components
    IN  CM_add_component(c4, 1, "Position", SomeValue).components

InitSched ==
    /\ next_entity_id = 2
    /\ dead_entities = <<>>
    /\ components = SceneComponents
    /\ entities_to_kill = {}
    /\ ret = Ret("new", None, "", <<>>, "Ok", None, <<>>)
    /\ issued = {0, 1}
    /\ freeLog = <<>>
    /\ live = {0, 1}
    /\ lastAdded = EmptyMap
    /\ held = EmptyMap
    /\ InitMore
    /\ LET st == RegisterAll([list |-> EmptyMap, parallels |-> <<>>], Registrations) IN
       /\ system_list = st.list
       /\ system_parallels = st.parallels
    /\ InitThreadPool(MaxThreads)
    /\ InitSystems

\* entity_list.into_iter().filter(|e| has_components(e, reqs).unwrap()).collect()
system_entities(reqs) ==
    SelectSeq(get_living_entities(next_entity_id, dead_entities),
              LAMBDA e : CM_has_components(components, e, reqs).val)

\* let parallels = self.system_parallels.lock().unwrap(): the guard is taken at
\* the top of every lifecycle driver and lives until the driver returns.
system_parallels_lock == IF spc # "idle" THEN "driver" ELSE ""

\* let systems = self.system_list.lock().unwrap(): likewise.
system_list_lock == IF spc # "idle" THEN "driver" ELSE ""

\* on_entry, on_exit or on_frame is called; on_frame starts with the physics
\* sub-pass when is_physics_frame is set.
SchedCall ==
    \E first \in {"on_entry", "on_exit", "on_physics_frame", "on_frame"} :
        /\ spc = "idle"
        /\ mpc \in {"idle", "wait_ret"}
        /\ cb' = first
        /\ bi' = 1
        /\ si' = 1
        /\ spc' = "loop"
        /\ mpc' = "idle"
        /\ UNCHANGED <<ecsVars, sysVars, callerVars, moreVars, sys_lock>>
        /\ UNCHANGED <<thread_count, queue, queue_lock, is_empty, has_task, thread_lock,
                       wpc, wjob, mi, mjob, nsub, finished>>

\* The body of the inner loop: the matching entities are computed and
\* t_pool.execute is called with the system's job.
SchedExecute ==
    /\ spc = "loop"
    /\ bi <= Len(system_parallels)
    /\ si <= Len(system_parallels[bi])
    /\ LET system_id == system_parallels[bi][si] IN
       mjob' = Job(1, system_id, cb, bi, system_entities(system_list[system_id]))
    /\ mpc' = "push_back"
    /\ spc' = "execute"
    /\ UNCHANGED <<ecsVars, sysVars, callerVars, moreVars, cb, bi, si, sys_lock>>
    /\ UNCHANGED <<thread_count, queue, queue_lock, is_empty, has_task, thread_lock,
                   wpc, wjob, mi, nsub, finished>>

\* execute has returned: the next system of the batch.
SchedExecuteReturned ==
    /\ spc = "execute"
    /\ mpc = "execute_ret"
    /\ si' = si + 1
    /\ spc' = "loop"
    /\ mpc' = "idle"
    /\ UNCHANGED <<ecsVars, sysVars, callerVars, moreVars, cb, bi, sys_lock>>
    /\ UNCHANGED <<thread_count, queue, queue_lock, is_empty, has_task, thread_lock,
                   wpc, wjob, mi, mjob, nsub, finished>>

\* The end of a batch. on_entry, on_exit and the normal pass of on_frame call
\* t_pool.wait() here; the physics sub-pass goes on to the next batch.
SchedEndOfBatch ==
    /\ spc = "loop"
    /\ bi <= Len(system_parallels)
    /\ si > Len(system_parallels[bi])
    /\ spc' = IF cb = "on_physics_frame" THEN "loop" ELSE "batch_wait"
    /\ mpc' = IF cb = "on_physics_frame" THEN mpc ELSE "wait_for_clear"
    /\ bi' = IF cb = "on_physics_frame" THEN bi + 1 ELSE bi
    /\ si' = IF cb = "on_physics_frame" THEN 1 ELSE si
    /\ UNCHANGED <<ecsVars, sysVars, callerVars, moreVars, cb, sys_lock>>
    /\ UNCHANGED <<thread_count, queue, queue_lock, is_empty, has_task, thread_lock,
                   wpc, wjob, mi, mjob, nsub, finished>>

\* wait() has returned at the end of a batch: the next batch.
SchedBatchWaitReturned ==
    /\ spc = "batch_wait"
    /\ mpc = "wait_ret"
    /\ bi' = bi + 1
    /\ si' = 1
    /\ spc' = "loop"
    /\ mpc' = "idle"
    /\ UNCHANGED <<ecsVars, sysVars, callerVars, moreVars, cb, sys_lock>>
    /\ UNCHANGED <<thread_count, queue, queue_lock, is_empty, has_task, thread_lock,
                   wpc, wjob, mi, mjob, nsub, finished>>

\* After the last batch: the physics sub-pass calls t_pool.wait() once, the
\* other passes return to the caller.
SchedEndOfPass ==
    /\ spc = "loop"
    /\ bi > Len(system_parallels)
    /\ spc' = IF cb = "on_physics_frame" THEN "pass_wait" ELSE "idle"
    /\ mpc' = IF cb = "on_physics_frame" THEN "wait_for_clear" ELSE mpc
    /\ UNCHANGED <<ecsVars, sysVars, callerVars, moreVars, cb, bi, si, sys_lock>>
    /\ UNCHANGED <<thread_count, queue, queue_lock, is_empty, has_task, thread_lock,
                   wpc, wjob, mi, mjob, nsub, finished>>

\* wait() has returned after the physics sub-pass: the normal pass of on_frame.
SchedPassWaitReturned ==
    /\ spc = "pass_wait"
    /\ mpc = "wait_ret"
    /\ cb' = "on_frame"
    /\ bi' = 1
    /\ si' = 1
    /\ spc' = "loop"
    /\ mpc' = "idle"
    /\ UNCHANGED <<ecsVars, sysVars, callerVars, moreVars, sys_lock>>
    /\ UNCHANGED <<thread_count, queue, queue_lock, is_empty, has_task, thread_lock,
                   wpc, wjob, mi, mjob, nsub, finished>>

\* The job closure: system_handle.lock()
SJobLock(w) ==
    /\ wpc[w] = "job"
    /\ sys_lock[wjob[w].sys] = 0
    /\ sys_lock' = [sys_lock EXCEPT ![wjob[w].sys] = w]
    /\ wpc' = [wpc EXCEPT ![w] = "for_entity"]
    /\ UNCHANGED <<ecsVars, sysVars, callerVars, moreVars, spc, cb, bi, si>>
    /\ UNCHANGED <<thread_count, queue, queue_lock, is_empty, has_task, thread_lock,
                   wjob, mpc, mi, mjob, nsub, finished>>

\* for entity in system_entities: the callback is entered for the next entity
SJobCallback(w) ==
    /\ wpc[w] = "for_entity"
    /\ wjob[w].ents # <<>>
    /\ wpc' = [wpc EXCEPT ![w] = "callback"]
    /\ UNCHANGED <<ecsVars, sysVars, callerVars, moreVars, schedVars>>
    /\ UNCHANGED <<thread_count, queue, queue_lock, is_empty, has_task, thread_lock,
                   wjob, mpc, mi, mjob, nsub, finished>>

\* the callback returns
SJobCallbackReturn(w) ==
    /\ wpc[w] = "callback"
    /\ wjob' = [wjob EXCEPT ![w].ents = Tail(@)]
    /\ wpc' = [wpc EXCEPT ![w] = "for_entity"]
    /\ UNCHANGED <<ecsVars, sysVars, callerVars, moreVars, schedVars>>
    /\ UNCHANGED <<thread_count, queue, queue_lock, is_empty, has_task, thread_lock,
                   mpc, mi, mjob, nsub, finished>>

\* the closure returns: the system's guard is dropped
SJobEnd(w) ==
    /\ wpc[w] = "for_entity"
    /\ wjob[w].ents = <<>>
    /\ sys_lock' = [sys_lock EXCEPT ![wjob[w].sys] = 0]
    /\ wjob' = [wjob EXCEPT ![w] = NoJob]
    /\ wpc' = [wpc EXCEPT ![w] = "unblock"]
    /\ UNCHANGED <<ecsVars, sysVars, callerVars, moreVars, spc, cb, bi, si>>
    /\ UNCHANGED <<thread_count, queue, queue_lock, is_empty, has_task, thread_lock,
                   mpc, mi, mjob, nsub, finished>>

NextSched ==
    \/ SchedCall
    \/ SchedExecute
    \/ SchedExecuteReturned
    \/ SchedEndOfBatch
    \/ SchedBatchWaitReturned
    \/ SchedEndOfPass
    \/ SchedPassWaitReturned
    \/ CallStep
    \/ WorkerStep
    \/ \E w \in Workers : SJobLock(w)
    \/ \E w \in Workers : SJobCallback(w)
    \/ \E w \in Workers : SJobCallbackReturn(w)
    \/ \E w \in Workers : SJobEnd(w)

SpecSched == InitSched /\ [][NextSched]_vars

(* ---------- SpecFrame: one on_frame call on a pool at rest ------------ *)

\* SceneState::on_frame is called once, with or without the physics-tick flag;
\* ret keeps the call and its flag.
FrameCall ==
    \E is_physics_frame \in BOOLEAN :
        /\ spc = "idle"
        /\ ret.op = "new"
        /\ ret' = Ret("on_frame", None, "", <<>>, "Ok",
                      IF is_physics_frame THEN 1 ELSE 0, <<>>)
        /\ cb' = IF is_physics_frame THEN "on_physics_frame" ELSE "on_frame"
        /\ bi' = 1
        /\ si' = 1
        /\ spc' = "loop"
        /\ UNCHANGED <<sysVars, poolVars, callerVars, moreVars, sys_lock>>
        /\ UNCHANGED <<next_entity_id, dead_entities, components, entities_to_kill,
                       issued, freeLog, live>>

\* for entity in system_entities: the callback is entered for the next entity,
\* and the entity it is handed is written to the log of its system and callback.
FJobCallback(w) ==
    /\ wpc[w] = "for_entity"
    /\ wjob[w].ents # <<>>
    /\ wpc' = [wpc EXCEPT ![w] = "callback"]
    /\ LET k == <<wjob[w].sys, wjob[w].cb>> IN
       called' = Put(called, k,
                     Append(IF k \in DOMAIN called THEN called[k] ELSE <<>>,
                            Head(wjob[w].ents)))
    /\ UNCHANGED <<ecsVars, sysVars, callerVars, storeVars, mgrVars, schedVars>>
    /\ UNCHANGED <<thread_count, queue, queue_lock, is_empty, has_task, thread_lock,
                   wjob, mpc, mi, mjob, nsub, finished>>

NextFrame ==
    \/ FrameCall
    \/ SchedExecute
    \/ SchedExecuteReturned
    \/ SchedEndOfBatch
    \/ SchedBatchWaitReturned
    \/ SchedEndOfPass
    \/ SchedPassWaitReturned
    \/ CallStep
    \/ WorkerStep
    \/ \E w \in Workers : SJobLock(w)
    \/ \E w \in Workers : FJobCallback(w)
    \/ \E w \in Workers : SJobCallbackReturn(w)
    \/ \E w \in Workers : SJobEnd(w)

SpecFrame == InitSched /\ [][NextFrame]_vars

\* Every step the thread that called on_frame takes by itself: the driver's
\* loops, execute and wait. A wakeup without a notification is not among them.
FrameMainRuns ==
    \/ SchedExecute
    \/ SchedExecuteReturned
    \/ SchedEndOfBatch
    \/ SchedBatchWaitReturned
    \/ SchedEndOfPass
    \/ SchedPassWaitReturned
    \/ CallRuns

\* Every step worker w takes by itself: its loop and the job closure.
FrameWorkerRuns(w) ==
    /\ w \in Workers
    /\ \/ WHasTaskWait(w)
       \/ WPopFront(w)
       \/ WSomeUnblock(w)
       \/ WSomeNotify(w)
       \/ WNoneUnblock(w)
       \/ WNoneNotify(w)
       \/ WNoneBlock(w)
       \/ WBlock(w)
       \/ SJobLock(w)
       \/ FJobCallback(w)
       \/ SJobCallbackReturn(w)
       \/ SJobEnd(w)
       \/ WUnblock(w)
       \/ WNotify(w)

\* One on_frame call under a fair scheduler, with every callback returning.
SpecFrameFair ==
    /\ InitSched
    /\ [][NextFrame]_vars
    /\ SF_vars(FrameMainRuns)
    /\ \A w \in 1..MaxThreads : SF_vars(FrameWorkerRuns(w))

(* ------ SpecSwap: Engine::run, swap_scenes and set_current_scene ------ *)

\* The one scene of the engine.
StartScene == 0

\* The scene: one system with the empty signature and one living entity, so that
\* every pass is one job with one callback.
InitSwap ==
    /\ next_entity_id = 1
    /\ dead_entities = <<>>
    /\ components = SceneComponents
    /\ entities_to_kill = {}
    /\ ret = Ret("new", None, "", <<>>, "Ok", None, <<>>)
    /\ issued = {0}
    /\ freeLog = <<>>
    /\ live = {0}
    /\ lastAdded = EmptyMap
    /\ held = EmptyMap
    /\ InitMore
    /\ LET st == RegisterAll([list |-> EmptyMap, parallels |-> <<>>], << <<"A", <<>> >> >>) IN
       /\ system_list = st.list
       /\ system_parallels = st.parallels
    /\ InitThreadPool(MaxThreads)
    /\ InitSystems

\* if let Some(scene) = self.next_scene.lock().unwrap().take() { .. }: the guard
\* is a temporary of the scrutinee and lives to the end of the if let, that is
\* for the whole of on_exit, the assignment and on_entry.
next_scene_lock ==
    IF swpc \in {"taken", "on_exit", "set_current", "on_entry"} THEN "swap_scenes" ELSE ""

\* Engine::run: set_current_scene(start_scene), then the loop.
SwRun ==
    /\ swpc = "idle"
    /\ next_scene' = StartScene
    /\ swpc' = "swap"
    /\ UNCHANGED <<ecsVars, sysVars, poolVars, schedVars, callerVars, logVars, storeVars,
                   current_scene>>

\* swap_scenes: next_scene.lock().unwrap().take(); with None the call returns
\* and the guard is dropped. ret keeps the scene taken.
SwTake ==
    /\ swpc = "swap"
    /\ next_scene' = None
    /\ swpc' = IF next_scene = None THEN "frame" ELSE "taken"
    /\ ret' = Ret("swap_scenes", None, "", <<>>, "", next_scene, <<>>)
    /\ UNCHANGED <<sysVars, poolVars, schedVars, callerVars, logVars, storeVars,
                   current_scene>>
    /\ UNCHANGED <<next_entity_id, dead_entities, components, entities_to_kill, issued,
                   freeLog, live>>

\* if let Ok(scene) = self.get_current_scene() { scene.on_exit(..) }
SwOnExit ==
    /\ swpc = "taken"
    /\ swpc' = IF current_scene = None THEN "set_current" ELSE "on_exit"
    /\ cb' = IF current_scene = None THEN cb ELSE "on_exit"
    /\ bi' = IF current_scene = None THEN bi ELSE 1
    /\ si' = IF current_scene = None THEN si ELSE 1
    /\ spc' = IF current_scene = None THEN spc ELSE "loop"
    /\ mpc' = IF current_scene = None THEN mpc ELSE "idle"
    /\ UNCHANGED <<ecsVars, sysVars, callerVars, logVars, storeVars, sys_lock,
                   next_scene, current_scene>>
    /\ UNCHANGED <<thread_count, queue, queue_lock, is_empty, has_task, thread_lock,
                   wpc, wjob, mi, mjob, nsub, finished>>

\* on_exit has returned.
SwOnExitReturned ==
    /\ swpc = "on_exit"
    /\ spc = "idle"
    /\ swpc' = "set_current"
    /\ UNCHANGED <<ecsVars, sysVars, poolVars, schedVars, callerVars, logVars, storeVars,
                   next_scene, current_scene>>

\* *self.current_scene.lock().unwrap() = Some(scene);
\* self.get_current_scene().unwrap().on_entry(engine)
SwSetCurrent ==
    /\ swpc = "set_current"
    /\ current_scene' = ret.val
    /\ swpc' = "on_entry"
    /\ cb' = "on_entry"
    /\ bi' = 1
    /\ si' = 1
    /\ spc' = "loop"
    /\ mpc' = "idle"
    /\ UNCHANGED <<ecsVars, sysVars, callerVars, logVars, storeVars, sys_lock, next_scene>>
    /\ UNCHANGED <<thread_count, queue, queue_lock, is_empty, has_task, thread_lock,
                   wpc, wjob, mi, mjob, nsub, finished>>

\* on_entry has returned: the end of the if let, swap_scenes returns.
SwReturn ==
    /\ swpc = "on_entry"
    /\ spc = "idle"
    /\ swpc' = "frame"
    /\ UNCHANGED <<ecsVars, sysVars, poolVars, schedVars, callerVars, logVars, storeVars,
                   next_scene, current_scene>>

\* Engine::run: current_scene.on_frame(..), here without the physics tick.
SwFrame ==
    /\ swpc = "frame"
    /\ swpc' = "on_frame"
    /\ cb' = "on_frame"
    /\ bi' = 1
    /\ si' = 1
    /\ spc' = "loop"
    /\ mpc' = "idle"
    /\ UNCHANGED <<ecsVars, sysVars, callerVars, logVars, storeVars, sys_lock,
                   next_scene, current_scene>>
    /\ UNCHANGED <<thread_count, queue, queue_lock, is_empty, has_task, thread_lock,
                   wpc, wjob, mi, mjob, nsub, finished>>

\* on_frame has returned: the next round of the loop.
SwFrameReturned ==
    /\ swpc = "on_frame"
    /\ spc = "idle"
    /\ swpc' = "swap"
    /\ UNCHANGED <<ecsVars, sysVars, poolVars, schedVars, callerVars, logVars, storeVars,
                   next_scene, current_scene>>

\* A callback calls engine.scenes().set_current_scene(&scene): does_scene_exist
\* is true, and the thread goes on to self.next_scene.lock().
CbSetCurrentSceneCall(w) ==
    /\ wpc[w] = "callback"
    /\ wpc' = [wpc EXCEPT ![w] = "next_scene_lock"]
    /\ UNCHANGED <<ecsVars, sysVars, schedVars, callerVars, moreVars>>
    /\ UNCHANGED <<thread_count, queue, queue_lock, is_empty, has_task, thread_lock,
                   wjob, mpc, mi, mjob, nsub, finished>>

\* *self.next_scene.lock().unwrap() = Some(*scene): the lock is free; the call
\* returns Ok(()) to the callback.
CbSetCurrentScene(w) ==
    /\ wpc[w] = "next_scene_lock"
    /\ next_scene_lock = ""
    /\ next_scene' = StartScene
    /\ wpc' = [wpc EXCEPT ![w] = "callback_tail"]
    /\ UNCHANGED <<ecsVars, sysVars, schedVars, callerVars, logVars, storeVars,
                   current_scene, swpc>>
    /\ UNCHANGED <<thread_count, queue, queue_lock, is_empty, has_task, thread_lock,
                   wjob, mpc, mi, mjob, nsub, finished>>

\* the callback returns after its set_current_scene call
CbReturn(w) ==
    /\ wpc[w] = "callback_tail"
    /\ wjob' = [wjob EXCEPT ![w].ents = Tail(@)]
    /\ wpc' = [wpc EXCEPT ![w] = "for_entity"]
    /\ UNCHANGED <<ecsVars, sysVars, schedVars, callerVars, moreVars>>
    /\ UNCHANGED <<thread_count, queue, queue_lock, is_empty, has_task, thread_lock,
                   mpc, mi, mjob, nsub, finished>>

NextSwap ==
    \/ SwRun
    \/ SwTake
    \/ SwOnExit
    \/ SwOnExitReturned
    \/ SwSetCurrent
    \/ SwReturn
    \/ SwFrame
    \/ SwFrameReturned
    \/ SchedExecute
    \/ SchedExecuteReturned
    \/ SchedEndOfBatch
    \/ SchedBatchWaitReturned
    \/ SchedEndOfPass
    \/ CallStep
    \/ WorkerStep
    \/ \E w \in Workers : SJobLock(w)
    \/ \E w \in Workers : SJobCallback(w)
    \/ \E w \in Workers : SJobCallbackReturn(w)
    \/ \E w \in Workers : CbSetCurrentSceneCall(w)
    \/ \E w \in Workers : CbSetCurrentScene(w)
    \/ \E w \in Workers : CbReturn(w)
    \/ \E w \in Workers : SJobEnd(w)

SpecSwap == InitSwap /\ [][NextSwap]_vars

\* Every step the thread inside Engine::run takes by itself.
SwapMainRuns ==
    \/ SwRun
    \/ SwTake
    \/ SwOnExit
    \/ SwOnExitReturned
    \/ SwSetCurrent
    \/ SwReturn
    \/ SwFrame
    \/ SwFrameReturned
    \/ SchedExecute
    \/ SchedExecuteReturned
    \/ SchedEndOfBatch
    \/ SchedBatchWaitReturned
    \/ SchedEndOfPass
    \/ CallRuns

\* Every step worker w takes by itself: its loop, the job closure and the callback.
SwapWorkerRuns(w) ==
    /\ w \in Workers
    /\ \/ WHasTaskWait(w)
       \/ WPopFront(w)
       \/ WSomeUnblock(w)
       \/ WSomeNotify(w)
       \/ WNoneUnblock(w)
       \/ WNoneNotify(w)
       \/ WNoneBlock(w)
       \/ WBlock(w)
       \/ SJobLock(w)
       \/ SJobCallback(w)
       \/ SJobCallbackReturn(w)
       \/ CbSetCurrentSceneCall(w)
       \/ CbSetCurrentScene(w)
       \/ CbReturn(w)
       \/ SJobEnd(w)
       \/ WUnblock(w)
       \/ WNotify(w)

\* Engine::run under a fair scheduler.
SpecSwapFair ==
    /\ InitSwap
    /\ [][NextSwap]_vars
    /\ SF_vars(SwapMainRuns)
    /\ \A w \in 1..MaxThreads : SF_vars(SwapWorkerRuns(w))

(* ------------------------------ claims -------------------------------- *)

\* C6 (SpecEM): FIFO id recycling. A create_entity call returns an id that was
\* never issued before only when the free-id queue is empty; when the queue is
\* not empty it returns the id that was freed earliest among the freed ids not
\* yet reissued (the head of the history freeLog).
C6_FifoRecycling ==
    [][(ret'.op = "create_entity" /\ ret'.res = "Ok") =>
          /\ (ret'.val \notin issued => dead_entities = <<>>)
          /\ (dead_entities # <<>> => freeLog # <<>> /\ ret'.val = Head(freeLog))
          /\ (dead_entities = <<>> => ret'.val \notin issued)]_vars

\* C6 witness: create_entity has just reissued an id while a later-freed id is
\* still waiting in the queue.
C6_Witness ==
    /\ ret.op = "create_entity"
    /\ ret.res = "Ok"
    /\ dead_entities # <<>>

\* C7 (SpecScene): live-id uniqueness. create_entity never returns an id that is
\* live (returned by an earlier create_entity and not culled since) when called.
C7_LiveIdUnique ==
    [][(ret'.op = "create_entity" /\ ret'.res = "Ok") => ret'.val \notin live]_vars

\* C7 witness: create_entity has reissued a culled id while another entity lives.
C7_Witness ==
    /\ ret.op = "create_entity"
    /\ ret.res = "Ok"
    /\ ret.val < next_entity_id - 1
    /\ Cardinality(live) >= 2

\* C8 (SpecScene): cull removes everything. When cull_entities runs, every entity
\* marked by a successful destroy_entity is afterwards absent from
\* get_living_entities(), has_components(e, [k]) is false for every registered
\* key k, and the set of entities marked for death is empty.
C8_CullRemovesEverything ==
    [][ret'.op = "cull_entities" =>
          /\ entities_to_kill' = {}
          /\ \A e \in entities_to_kill :
                /\ ~Contains(get_living_entities(next_entity_id', dead_entities'), e)
                /\ \A k \in DOMAIN components' :
                      CM_has_components(components', e, <<k>>)
                          = [res |-> "Ok", val |-> FALSE]]_vars

\* C8 witness: a cull has just removed a marked entity from a scene with two
\* registered component arrays, one of which still holds another entity.
C8_Witness ==
    /\ ret.op = "cull_entities"
    /\ ret.list # <<>>
    /\ Cardinality(DOMAIN components) = 2
    /\ \E c \in DOMAIN components : components[c] # EmptyMap

\* C9 (SpecScene): has_components returns ComponentNotRegistered whenever at least
\* one key of the list is not a registered component type, whatever its position
\* and whatever the entity holds for the other keys.
C9_HasComponentsUnregistered ==
    (ret.op = "has_components" /\ \E i \in DOMAIN ret.keys : ret.keys[i] \notin DOMAIN components)
        => ret.res = "ComponentNotRegistered"

\* C10 as stated (SpecScene): add_component for an unregistered type returns
\* ComponentNotRegistered and stores nothing for every entity handle, at
\* SceneState::add_component as at ComponentManager::add_component.
C10_Original ==
    [][(ret'.op = "add_component" /\ ret'.comp \notin DOMAIN components) =>
          /\ ret'.res = "ComponentNotRegistered"
          /\ components' = components]_vars

\* C10 as amended (SpecScene): for an unregistered type,
\* ComponentManager::add_component returns ComponentNotRegistered and stores
\* nothing for every handle; SceneState::add_component stores nothing either and
\* returns ComponentNotRegistered when the entity exists, EntityDoesNotExist when
\* it does not.
C10_AddUnregistered ==
    [][/\ \A e \in Handles, c \in ComponentTypes \ DOMAIN components :
             CM_add_component(components, e, c, SomeValue)
                 = [res |-> "ComponentNotRegistered", components |-> components]
       /\ (ret'.op = "add_component" /\ ret'.comp \notin DOMAIN components) =>
             /\ components' = components
             /\ ret'.res = IF does_entity_exist(next_entity_id, dead_entities, ret'.ent)
                           THEN "ComponentNotRegistered"
                           ELSE "EntityDoesNotExist"]_vars

\* C10 witness: add_component of an unregistered type on an existing entity has
\* just failed, in a scene whose other array holds a component.
C10_Witness ==
    /\ ret.op = "add_component"
    /\ ret.comp \notin DOMAIN components
    /\ ret.res = "ComponentNotRegistered"
    /\ \E c \in DOMAIN components : components[c] # EmptyMap

\* Two signatures share at least one component type key.
SharesComponent(sigA, sigB) == Range(sigA) \cap Range(sigB) # {}

\* C4 (SpecReg): batch disjointness. After any sequence of register_system
\* calls, no batch of system_parallels holds two systems whose signatures share
\* a component type key.
C4_BatchDisjoint ==
    \A b \in DOMAIN system_parallels :
        \A i, j \in DOMAIN system_parallels[b] :
            i # j => ~SharesComponent(system_list[system_parallels[b][i]],
                                      system_list[system_parallels[b][j]])

\* C4 witness: two registered systems share a component and sit in different
\* batches, while some batch holds two systems.
C4_Witness ==
    /\ \E b \in DOMAIN system_parallels : Len(system_parallels[b]) >= 2
    /\ \E x, y \in DOMAIN system_list :
          x # y /\ SharesComponent(system_list[x], system_list[y])

\* The placement the claim describes: the first batch, in creation order, none
\* of whose members shares a component with the new signature; else a new batch.
RECURSIVE FirstFitFrom(_, _, _, _, _)
FirstFitFrom(list, parallels, i, system_id, signature) ==
    IF i > Len(parallels)
    THEN Append(parallels, <<system_id>>)
    ELSE IF \A k \in DOMAIN parallels[i] : ~SharesComponent(list[parallels[i][k]], signature)
         THEN [parallels EXCEPT ![i] = Append(@, system_id)]
         ELSE FirstFitFrom(list, parallels, i + 1, system_id, signature)

\* C5 (SpecReg): greedy first-fit placement. register_system of a system type
\* not yet registered puts it into the first batch none of whose members shares
\* a component with its signature, and appends a new batch only when there is
\* none; so A {Position}, B {Physics}, C {Position} gives [A, B] and [C].
C5_GreedyFirstFit ==
    [][(ret'.op = "register_system" /\ ret'.comp \notin DOMAIN system_list) =>
          system_parallels' =
              FirstFitFrom(system_list, system_parallels, 1, ret'.comp, ret'.keys)]_vars

\* C1 (SpecPool): drain barrier. When wait() returns, every job handed to
\* execute before the call has finished executing: none is in the queue, held
\* by a worker that has not started it, or running.
C1_DrainBarrier ==
    mpc = "wait_ret" => \A id \in 1..nsub : id \in finished

\* The jobs that were submitted and have not completed: in the queue, or held
\* by a worker that has not started or not finished them.
Unfinished == Range(queue) \cup {wjob[w] : w \in {x \in Workers : wjob[x] # NoJob}}

\* C2 (SpecSched): absence of conflicting parallel execution. At no time are
\* two workers executing callbacks of two different registered systems whose
\* signatures share a component type.
C2_NoConflictingParallel ==
    \A w1, w2 \in Workers :
        (/\ wpc[w1] = "callback"
         /\ wpc[w2] = "callback"
         /\ wjob[w1].sys # wjob[w2].sys)
            => ~SharesComponent(system_list[wjob[w1].sys], system_list[wjob[w2].sys])

\* C3 (SpecSched): batch barrier. In every pass, no job of a later batch is
\* submitted or started before every job of the batches before it has
\* completed: the unfinished jobs all belong to one batch of one pass.
C3_BatchBarrier ==
    \A j1, j2 \in Unfinished : j1.cb = j2.cb /\ j1.batch = j2.batch

\* C11: register_component always returns the key of its type, and a call for a
\* type that is already registered leaves every array and every stored value
\* as it was.
C11_RegisterIdempotent ==
    [][ret'.op = "register_component" =>
          /\ ret'.keys = <<ret'.comp>>
          /\ (is_component_registered(components, ret'.comp) => components' = components)
      ]_vars

\* A type is registered again while its array holds a value.
C11_Witness ==
    /\ ret.op = "register_component"
    /\ ret.comp \in DOMAIN components
    /\ components[ret.comp] # EmptyMap

\* C12: get_component fails with ComponentNotRegistered exactly for an unregistered
\* type, with EntityDoesNotOwnComponent exactly for a registered type the entity
\* has no value of, and otherwise returns the value add_component stored last;
\* the store is unchanged in every case.
C12_GetComponent ==
    [][ret'.op = "get_component" =>
          LET c == ret'.comp
              e == ret'.ent
          IN  /\ (ret'.res = "ComponentNotRegistered") <=> (c \notin DOMAIN components)
              /\ (ret'.res = "EntityDoesNotOwnComponent") <=>
                     (c \in DOMAIN components /\ <<c, e>> \notin DOMAIN lastAdded)
              /\ (ret'.res = "Ok") <=>
                     (c \in DOMAIN components /\ <<c, e>> \in DOMAIN lastAdded)
              /\ (ret'.res = "Ok" => ret'.val = lastAdded[<<c, e>>])
              /\ components' = components
      ]_vars

\* get_component returns the second value stored for an entity while another
\* entity holds a different value of the same type.
C12_Witness ==
    /\ ret.op = "get_component"
    /\ ret.res = "Ok"
    /\ ret.val = SomeValue + 1
    /\ \E e \in DOMAIN components[ret.comp] : components[ret.comp][e] = SomeValue

\* The number of places job id is in: about to be pushed by execute, in the
\* queue, held by a worker (dequeued, not yet run to its end), or finished.
JobPlaces(id) ==
    (IF mpc = "push_back" /\ mjob.id = id THEN 1 ELSE 0)
    + Cardinality({i \in DOMAIN queue : queue[i].id = id})
    + Cardinality({w \in Workers : wjob[w].id = id})
    + (IF id \in finished THEN 1 ELSE 0)

\* C13: every job handed to execute is in exactly one place at any time: a job
\* a worker has dequeued is no longer in the queue nor held by another worker,
\* and a job that has run is not held or queued again.
C13_ExactlyOneWorker == \A id \in 1..nsub : JobPlaces(id) = 1

\* Two workers each hold a job they dequeued, and the jobs differ.
C13_Witness ==
    /\ thread_count >= 2
    /\ \A w \in 1..2 : wjob[w] # NoJob /\ wpc[w] \in {"job", "running"}
    /\ wjob[1].id # wjob[2].id

\* C14: a wait() that has been called returns, under a fair scheduler, when every
\* job returns and nothing is submitted during the wait.
C14_WaitTerminates == (mpc = "wait_for_clear") ~> (mpc = "wait_ret")

\* C15: create_entity fails with EntityMaxReached exactly when the free-id queue is
\* empty and the counter is at the end of the id space; the failure changes
\* neither of them, and with a free id queued the call succeeds.
C15_EntityMaxReached ==
    [][ret'.op = "create_entity" =>
          /\ (ret'.res = "EntityMaxReached") <=>
                 (dead_entities = <<>> /\ next_entity_id = U32_MAX)
          /\ (ret'.res = "EntityMaxReached" =>
                 next_entity_id' = next_entity_id /\ dead_entities' = dead_entities)
          /\ (dead_entities # <<>> => ret'.res = "Ok" /\ ret'.val = Head(dead_entities))
      ]_vars

\* create_entity has failed with every id of the id space alive.
C15_Witness ==
    /\ ret.op = "create_entity"
    /\ ret.res = "EntityMaxReached"
    /\ live = 0..(U32_MAX - 1)

\* C16: register_system for a system type that is already registered changes
\* neither the stored entry of any type nor the batches, whatever signature the
\* call passes.
C16_ReRegisterNoOp ==
    [][(ret'.op = "register_system" /\ ret'.comp \in DOMAIN system_list) =>
          (system_list' = system_list /\ system_parallels' = system_parallels)
      ]_vars

\* A registered system type has been registered again with another signature.
C16_Witness ==
    /\ ret.op = "register_system"
    /\ ret.comp \in DOMAIN system_list
    /\ system_list[ret.comp] # ret.keys
    /\ Len(system_parallels) >= 2

\* The component types entity e has a value of.
ComponentsOf(comps, e) == {c \in DOMAIN comps : e \in DOMAIN comps[c]}

\* C18: a successful destroy_entity(e) only adds e to the marked set; while e is
\* marked it is listed by get_living_entities, create_entity does not return its
\* id, and its components change only through add_component and
\* remove_component.
C18_DeferredDestruction ==
    /\ [](\A e \in entities_to_kill :
             Contains(get_living_entities(next_entity_id, dead_entities), e))
    /\ [][/\ (ret'.op = "destroy_entity" /\ ret'.res = "Ok") =>
                /\ entities_to_kill' = entities_to_kill \cup {ret'.ent}
                /\ UNCHANGED <<next_entity_id, dead_entities, components>>
          /\ (ret'.op = "create_entity" /\ ret'.res = "Ok") =>
                ret'.val \notin entities_to_kill
          /\ (components' # components
                 /\ ret'.op \notin {"add_component", "remove_component"}) =>
                \A e \in entities_to_kill \cap entities_to_kill' :
                    ComponentsOf(components', e) = ComponentsOf(components, e)
         ]_vars

\* A marked entity that owns a component is listed by get_living_entities.
C18_Witness ==
    /\ ret.op = "get_living_entities"
    /\ \E e \in entities_to_kill :
          /\ Contains(ret.list, e)
          /\ ComponentsOf(components, e) # {}

\* C17 (SpecFrame): in an on_frame call with the physics-tick flag set, no
\* on_frame callback is running while a job of the physics sub-pass still has
\* callbacks to make; in a call with the flag clear there is no
\* on_physics_frame job at all.
C17_PhysicsBeforeFrame ==
    ret.op = "on_frame" =>
        /\ ret.val = 1 =>
              \A w \in Workers :
                  (wpc[w] = "callback" /\ wjob[w].cb = "on_frame") =>
                      ~\E j \in Unfinished : j.cb = "on_physics_frame" /\ j.ents # <<>>
        /\ ret.val = 0 =>
              ~\E j \in Unfinished \cup {mjob} : j.cb = "on_physics_frame"

\* C19 (SpecSched): while a job is executing on a worker, and while the driver is
\* inside the pool's wait(), the driver holds neither the lock of the system
\* list nor the lock of the batch list.
C19_NoLockAcrossJobs ==
    (\/ \E w \in Workers : wpc[w] \in {"for_entity", "callback"}
     \/ mpc \in {"wait_for_clear", "is_empty_parked", "thread_lock_wait",
                 "thread_lock_parked"})
        => (system_list_lock = "" /\ system_parallels_lock = "")

\* C20 (SpecHandles): code outside the ECS never holds two handles to one entity
\* id, and holds no handle to an id that was destroyed and culled and has not
\* been issued again.
C20_NoDuplicateHandles ==
    \A e \in DOMAIN held :
        /\ held[e] <= 1
        /\ Contains(dead_entities, e) => held[e] = 0

\* C21: after any sequence of create_entity and destroy_entity calls, a call of
\* get_living_entities returns, in ascending order and without duplicates, exactly
\* the ids that create_entity returned and that were not destroyed since they
\* were last issued (the history set live), and does_entity_exist answers true
\* for exactly those ids.
C21_LivingIsIssuedNotDestroyed ==
    /\ ret.op = "get_living_entities" =>
           /\ Range(ret.list) = live
           /\ \A i, j \in DOMAIN ret.list : i < j => ret.list[i] < ret.list[j]
    /\ ret.op = "does_entity_exist" => (ret.val = 1 <=> ret.ent \in live)
    /\ \A e \in Handles :
           does_entity_exist(next_entity_id, dead_entities, e) <=> e \in live

\* get_living_entities has answered with a list that skips a destroyed id below a
\* living one.
C21_Witness ==
    /\ ret.op = "get_living_entities"
    /\ \E i \in DOMAIN ret.list, d \in Range(dead_entities) : d < ret.list[i]

\* C22: destroying an entity that does not exist (never issued, or already in the
\* free-id queue) changes nothing at either layer: EntityManager::destroy_entity
\* is a silent no-op (counter and free-id queue unchanged), so an id is never
\* twice in the free-id queue, and SceneState::destroy_entity returns
\* EntityDoesNotExist without marking anything for destruction.
C22_DestroyMissingIsNoOp ==
    /\ [](\A i, j \in DOMAIN dead_entities : dead_entities[i] = dead_entities[j] => i = j)
    /\ [][(/\ ret'.op = "destroy_entity"
           /\ ~does_entity_exist(next_entity_id, dead_entities, ret'.ent))
          => /\ UNCHANGED <<next_entity_id, dead_entities, entities_to_kill, components>>
             /\ SceneDestroyEntity => ret'.res = "EntityDoesNotExist"
             /\ EMDestroy => ret'.res = "Ok"]_vars

\* SceneState::destroy_entity has refused an id that sits in the free-id queue.
C22_Witness ==
    /\ ret.op = "destroy_entity"
    /\ ret.res = "EntityDoesNotExist"
    /\ Contains(dead_entities, ret.ent)

\* The pairs (type, entity) stored in comps, each with its value.
Stored(comps) ==
    {<<c, e, comps[c][e]>> : <<c, e>> \in {x \in (DOMAIN comps) \X Handles : x[2] \in DOMAIN comps[x[1]]}}

\* C23: remove_component<C>(e) on a registered C returns Ok whether or not e has
\* a C, and changes nothing in the store except deleting the pair (e, C);
\* remove_components(e) returns Ok, deletes e from every registered array and
\* leaves every other entity's components and the set of registered types as
\* they were.
C23_RemoveFrame ==
    [][/\ (ret'.op = "remove_component" /\ ret'.comp \in DOMAIN components) =>
            /\ ret'.res = "Ok"
            /\ DOMAIN components' = DOMAIN components
            /\ Stored(components') = {x \in Stored(components) :
                                        ~(x[1] = ret'.comp /\ x[2] = ret'.ent)}
       /\ ret'.op = "remove_components" =>
            /\ ret'.res = "Ok"
            /\ DOMAIN components' = DOMAIN components
            /\ Stored(components') = {x \in Stored(components) : x[2] # ret'.ent}]_vars

\* remove_component has returned Ok, the entity keeps a component of another
\* type and another entity keeps its component of the removed type.
C23_Witness ==
    /\ ret.op = "remove_component"
    /\ ret.res = "Ok"
    /\ \E x, y \in Stored(components) :
          /\ x[1] = ret.comp /\ x[2] # ret.ent
          /\ y[1] # ret.comp /\ y[2] = ret.ent

\* Job id is in the queue.
Queued(id) == \E i \in DOMAIN queue : queue[i].id = id

\* Job id has been dequeued and its FnOnce called.
Started(id) == id \in finished \/ \E w \in Workers : wjob[w].id = id /\ wpc[w] = "running"

\* C25: no job is lost: under a fair scheduler, with every job returning, a job
\* pushed by execute is eventually dequeued and started, whatever the pool size and
\* the interleaving of assign_job with the workers' get_job; and jobs leave the
\* queue in the order they were submitted (ids count the submissions).
C25_NoLostJob ==
    /\ \A id \in 1..MaxJobs : Queued(id) ~> Started(id)
    /\ [][\A w \in Workers :
            (wjob'[w] # wjob[w] /\ wjob'[w] # NoJob) =>
                /\ queue # <<>> /\ wjob'[w] = Head(queue) /\ queue' = Tail(queue)
                /\ \A i \in DOMAIN queue' : queue'[i].id > wjob'[w].id
                /\ \A id \in 1..(wjob'[w].id - 1) : ~Queued(id) /\ JobPlaces(id) = 1]_vars

\* A job is queued while has_task is blocked and every worker is parked on it:
\* the caller is between push_back and has_task.unblock().
C25_Witness ==
    /\ queue # <<>>
    /\ has_task
    /\ \A w \in Workers : wpc[w] = "has_task_parked"

\* The living entities that hold every component of the signature sig, in
\* ascending id order.
RECURSIVE Ascending(_)
Ascending(S) ==
    IF S = {} THEN <<>>
    ELSE LET m == CHOOSE x \in S : \A y \in S : x <= y IN <<m>> \o Ascending(S \ {m})

Matching(sig) ==
    Ascending({e \in live : \A i \in DOMAIN sig :
                  sig[i] \in DOMAIN components /\ e \in DOMAIN components[sig[i]]})

\* The entities the callback c of system sys has been invoked with, in order.
LogOf(sys, c) == IF <<sys, c>> \in DOMAIN called THEN called[<<sys, c>>] ELSE <<>>

\* The passes an on_frame call makes.
PassesOf(flag) == IF flag = 1 THEN {"on_physics_frame", "on_frame"} ELSE {"on_frame"}

\* No callback is invoked for an entity outside the matching set, twice for one
\* entity, or out of ascending order: every log is a prefix of the matching list.
CalledInOrder ==
    \A k \in DOMAIN called :
        /\ k[2] \in PassesOf(ret.val)
        /\ Len(called[k]) <= Len(Matching(system_list[k[1]]))
        /\ called[k] = SubSeq(Matching(system_list[k[1]]), 1, Len(called[k]))

\* Every callback of every pass of the call has been invoked for its whole
\* matching list.
AllCalled ==
    \A sys \in DOMAIN system_list, c \in PassesOf(ret.val) :
        LogOf(sys, c) = Matching(system_list[sys])

\* C24: in a lifecycle pass the callback of every registered system is invoked
\* exactly once for each living entity that holds every component of the
\* system's signature (every living entity for an empty signature), for no other
\* entity, one after the other and in ascending id order. Under a fair scheduler,
\* with every callback returning: no log ever leaves the matching list, and after
\* on_frame is called every log becomes the whole matching list.
C24_CallbackPerMatchingEntity ==
    /\ []CalledInOrder
    /\ (ret.op = "on_frame") ~> AllCalled

\* C26: in add_component, remove_component and get_component the lock of the
\* top-level map is held only for the lookup and is released before the lock of
\* the array is used, so that threads working on different types do not block
\* one another: no thread holds an array's lock together with the map's lock.
C26_MapLockReleasedBeforeArray ==
    \A t \in Threads, c \in ComponentTypes :
        array_lock[c] = t => components_lock # t

\* The history of stored components is still in the store.
NothingDiscarded ==
    \A k \in DOMAIN lastAdded :
        k[1] \in DOMAIN components /\ k[2] \in DOMAIN components[k[1]]

\* C28: concurrent register_component calls for one type, also interleaved with
\* add_component calls that follow a completed registration, behave as if check
\* and insert were atomic: an array is installed only for a type that has none,
\* and no component stored by add_component (and not removed) is discarded.
C28_RegisterAtomic ==
    /\ []NothingDiscarded
    /\ [][\A t \in Threads :
            (tpc[t].pc = "insert_array" /\ tpc'[t].pc = "idle") =>
                ~is_component_registered(components, tpc[t].comp)]_vars

\* C29: get_component never reaches the panic of its expect: whatever the other
\* threads do with add_component, remove_component, remove_components and
\* register_component, the entity has_entity_data found is still in the array at
\* get_mut.
C29_GetComponentNeverPanics ==
    /\ \A t \in Threads : tpc[t].pc # "panicked"
    /\ \A t \in Threads :
          tpc[t].pc \in {"lock_array_again", "get_mut"} =>
              /\ tpc[t].comp \in DOMAIN components
              /\ tpc[t].ent \in DOMAIN components[tpc[t].comp]

\* A get_component call stands before get_mut, having found the entity, while
\* another thread is inside register_component for the same type and about to
\* insert an array.
C29_Witness ==
    \E t, u \in Threads :
        /\ tpc[t].pc = "get_mut"
        /\ tpc[u].pc = "insert_array"
        /\ tpc[u].comp = tpc[t].comp

\* C27: create_entity calls made at the same time from callbacks on different
\* workers return distinct ids, none of them already live, under every
\* interleaving of the registry's steps: an id that a call returns is not live
\* when the call returns.
C27_ConcurrentCreateDistinct ==
    [][\A t \in Threads :
          (tpc[t].pc = "return" /\ tpc[t].res = "Ok" /\ tpc'[t].pc = "idle") =>
              tpc[t].val \notin live]_vars

\* C30: a scene change requested during a swap does not deadlock: a callback of
\* on_entry or on_exit that runs on a worker while swap_scenes is in progress and
\* calls set_current_scene gets past the lock of next_scene, under a fair
\* scheduler, because swap_scenes does not hold that lock while it waits for its
\* callbacks.
C30_SetDuringSwapReturns ==
    \A w \in 1..MaxThreads :
        (wpc[w] = "next_scene_lock") ~> (wpc[w] # "next_scene_lock")

====
